---- MODULE Spec2Model ----
(***************************************************************************)
(* A model of nuuslees: the storage gateway (db.rs), the feed              *)
(* synchronizer (Database::refresh_feeds) and the action dispatch loop     *)
(* (App::run) with the tab viewer and its tab content components.          *)
(*                                                                         *)
(* Three specifications share the variables:                               *)
(*   Spec      the dispatch loop over a storage filled by one sync         *)
(*   SpecSync  application starts, each running refresh_feeds, with the    *)
(*             configuration and the remote documents growing in between   *)
(*   SpecDb    the three upsert operations called with arbitrary arguments *)
(***************************************************************************)
EXTENDS Integers, Sequences, FiniteSets, TLC

VARIABLES
  \* ---- storage (db.rs) ----
  groups,             \* rows of table groups, in rowid order
  feeds,              \* rows of table feeds, in rowid order
  feed_items,         \* rows of table feed_items, in rowid order
  last_insert_rowid,  \* sqlite3_last_insert_rowid() of the open connection
  foreign_keys,       \* whether the SQLite build enforces FOREIGN KEY clauses
  \* ---- synchronizer (Database::refresh_feeds) ----
  config,             \* Config.groups: sequence of [name, desc, feeds]
  remote,             \* the remote documents: link -> sequence of entry urls
  sync_pc,            \* position of refresh_feeds
  gi, fi, ii,         \* loop positions: group, feed in group, entry in channel
  group_id, feed_id,  \* the locals of refresh_feeds
  channel,            \* entries of the document fetched for the current feed
  now,                \* Utc::now(), advancing with every application start
  sync_log,           \* history of the running sync: failures met so far
  \* ---- direct upsert calls (SpecDb) ----
  call,               \* history: the last upsert call and its outcome
  \* ---- dispatch loop (app.rs) and components ----
  pc,                 \* position of App::run
  queue,              \* the unbounded action channel (action_tx / action_rx)
  should_quit,
  should_suspend,
  mode,               \* App.mode
  extraction,         \* history: the extraction of the Action being processed
  tabs,               \* TabViewer.tabs
  selected_tab,       \* TabViewer.selected_tab
  tab_bar,            \* TabViewer.tab_bar: [tabs, selected_tab]
  next_uid,           \* history: number of tab components constructed so far
  closed,             \* history: uids of the components removed from tabs
  drawn,              \* history: uid of the component drawn by the last draw
  last_event,         \* history: the terminal event that started this pass
  last_action,        \* history: the Action processed by the last drain step
  show,               \* QuitPopup.show
  confirm_quit,       \* QuitPopup.config.confirm_quit
  draw_err,           \* environment: the components whose draw hands back Err
  frame,              \* history: the components drawn by the last draw
  overflow_checks,    \* build: whether usize arithmetic panics on overflow (debug) or wraps
  tv_mode             \* TabViewer.mode

dbVars   == <<groups, feeds, feed_items, last_insert_rowid, foreign_keys>>
syncVars == <<config, remote, sync_pc, gi, fi, ii, group_id, feed_id, channel, now, sync_log>>
uiVars   == <<pc, queue, should_quit, should_suspend, mode, tv_mode, extraction, tabs, selected_tab, tab_bar,
              next_uid, closed, drawn, last_event, last_action, show, confirm_quit,
              draw_err, frame, overflow_checks>>
vars     == <<dbVars, syncVars, call, uiVars>>

\* ------------------------------------------------------------------ bounds

MaxSyncs  == 2   \* application starts (synchronizations) of one behaviour
MaxOpened == 3   \* tab components constructed in one behaviour
MaxSuspends == 2 \* Suspend Actions waiting in the queue at one time
MaxSent   == 4   \* Actions the quit popup sends in one behaviour
MaxWrapped == 1  \* previous-steps taken from a selection that has wrapped below zero

\* ------------------------------------------------------------------ inputs

GroupNameSeq == <<"g1", "g2">>   \* names of configured groups
LinkSeq      == <<"u1", "u2">>   \* links (urls) of configured feeds
ItemUrlSeq   == <<"a", "b">>     \* links of the entries of the remote documents
GroupNames == {GroupNameSeq[i] : i \in DOMAIN GroupNameSeq}
Links      == {LinkSeq[i] : i \in DOMAIN LinkSeq}
ItemUrls   == {ItemUrlSeq[i] : i \in DOMAIN ItemUrlSeq}
Texts      == {"t1", "t2"}     \* names, descriptions and titles
None       == "None"           \* Option::None of an optional configuration text

\* ------------------------------------------------------------------ helpers

Last(s) == s[Len(s)]

RECURSIVE SeqMap(_, _)
\* s with Op applied to every element
SeqMap(Op(_), s) == IF s = <<>> THEN <<>> ELSE <<Op(Head(s))>> \o SeqMap(Op, Tail(s))

RECURSIVE SeqFilter(_, _)
\* the elements of s that satisfy Test, in order
SeqFilter(Test(_), s) ==
  IF s = <<>> THEN <<>>
  ELSE (IF Test(Head(s)) THEN <<Head(s)>> ELSE <<>>) \o SeqFilter(Test, Tail(s))

Range(s) == {s[i] : i \in DOMAIN s}

\* ------------------------------------------------------------------ storage

\* The connection's view of the database, as the operations below take it.
Db == [groups |-> groups, feeds |-> feeds, feed_items |-> feed_items,
       last_insert_rowid |-> last_insert_rowid, foreign_keys |-> foreign_keys]

\* INTEGER PRIMARY KEY AUTOINCREMENT: no row is ever deleted, so the next id
\* is one more than the number of rows.
NextId(table) == Len(table) + 1

GroupRow(id, name, desc) == [id |-> id, name |-> name, desc |-> desc]

FeedRow(id, gid, name, desc, url, updated_at) ==
  [id |-> id, group_id |-> gid, name |-> name, desc |-> desc, url |-> url,
   updated_at |-> updated_at]

ItemRow(id, fid, title, url, desc, content, read, pub_date) ==
  [id |-> id, feed_id |-> fid, title |-> title, url |-> url, desc |-> desc,
   content |-> content, read |-> read, pub_date |-> pub_date]

\* What an upsert hands back: the database after it, Ok/Err, and the id.
Outcome(d, ok, id) == [db |-> d, ok |-> ok, id |-> id]

\* INSERT INTO groups ... ON CONFLICT(name) DO UPDATE SET desc=excluded.desc,
\* then last_insert_rowid(). io_ok = FALSE is a failure of the storage engine.
upsert_group(d, g, io_ok) ==
  IF ~io_ok THEN Outcome(d, FALSE, 0)
  ELSE IF \E i \in DOMAIN d.groups : d.groups[i].name = g.name
    THEN LET i == CHOOSE i \in DOMAIN d.groups : d.groups[i].name = g.name
         IN  Outcome([d EXCEPT !.groups[i].desc = g.desc], TRUE, d.last_insert_rowid)
    ELSE LET id == NextId(d.groups)
         IN  Outcome([d EXCEPT !.groups = Append(@, GroupRow(id, g.name, g.desc)),
                               !.last_insert_rowid = id], TRUE, id)

\* A feed upsert whose conflict arm keeps the stored name (DO NOTHING instead
\* of DO UPDATE): used to show that C9 depends on the conflict arm.
upsert_feed_keep(d, f, io_ok) ==
  IF ~io_ok THEN Outcome(d, FALSE, 0)
  ELSE IF \E i \in DOMAIN d.feeds : d.feeds[i].url = f.url
    THEN Outcome(d, TRUE, d.last_insert_rowid)
    ELSE LET id == NextId(d.feeds)
         IN  Outcome([d EXCEPT !.feeds = Append(@, FeedRow(id, f.group_id, f.name,
                                                  f.desc, f.url, f.updated_at)),
                               !.last_insert_rowid = id], TRUE, id)

\* INSERT INTO feeds ... ON CONFLICT(url) DO UPDATE SET name, desc, updated_at.
\* The insert path is subject to FOREIGN KEY(group_id) when the build enforces it.
upsert_feed(d, f, io_ok) ==
  IF ~io_ok THEN Outcome(d, FALSE, 0)
  ELSE IF \E i \in DOMAIN d.feeds : d.feeds[i].url = f.url
    THEN LET i == CHOOSE i \in DOMAIN d.feeds : d.feeds[i].url = f.url
         IN  Outcome([d EXCEPT !.feeds[i].name = f.name, !.feeds[i].desc = f.desc,
                               !.feeds[i].updated_at = f.updated_at],
                     TRUE, d.last_insert_rowid)
    ELSE IF d.foreign_keys /\ ~\E i \in DOMAIN d.groups : d.groups[i].id = f.group_id
      THEN Outcome(d, FALSE, 0)
      ELSE LET id == NextId(d.feeds)
           IN  Outcome([d EXCEPT !.feeds = Append(@, FeedRow(id, f.group_id, f.name,
                                                    f.desc, f.url, f.updated_at)),
                                 !.last_insert_rowid = id], TRUE, id)

\* An item upsert without the unique key on url (every call inserts): used to
\* show that C8 depends on the conflict detection.
upsert_feed_item_insert(d, it, io_ok) ==
  IF ~io_ok THEN Outcome(d, FALSE, 0)
  ELSE LET id == NextId(d.feed_items)
       IN  Outcome([d EXCEPT !.feed_items = Append(@, ItemRow(id, it.feed_id,
                                 it.title, it.url, it.desc, it.content, it.read,
                                 it.pub_date)),
                             !.last_insert_rowid = id], TRUE, id)

\* INSERT INTO feed_items ... ON CONFLICT(url) DO UPDATE SET title, desc,
\* content, read, pub_date.
upsert_feed_item(d, it, io_ok) ==
  IF ~io_ok THEN Outcome(d, FALSE, 0)
  ELSE IF \E i \in DOMAIN d.feed_items : d.feed_items[i].url = it.url
    THEN LET i == CHOOSE i \in DOMAIN d.feed_items : d.feed_items[i].url = it.url
         IN  Outcome([d EXCEPT !.feed_items[i].title = it.title,
                               !.feed_items[i].desc = it.desc,
                               !.feed_items[i].content = it.content,
                               !.feed_items[i].read = it.read,
                               !.feed_items[i].pub_date = it.pub_date],
                     TRUE, d.last_insert_rowid)
    ELSE IF d.foreign_keys /\ ~\E i \in DOMAIN d.feeds : d.feeds[i].id = it.feed_id
      THEN Outcome(d, FALSE, 0)
      ELSE LET id == NextId(d.feed_items)
           IN  Outcome([d EXCEPT !.feed_items = Append(@, ItemRow(id, it.feed_id,
                                     it.title, it.url, it.desc, it.content, it.read,
                                     it.pub_date)),
                                 !.last_insert_rowid = id], TRUE, id)

\* The synthetic rows prepended to the listings.
all_group == GroupRow(-1, "All Feeds", "See all feeds in all groups")
all_feed(gid) == FeedRow(-1, gid, "All Feeds", "See all feeds in this group", "", now)

\* A group listing of the stored rows alone: used to show that C26 depends on
\* the synthetic group being put in front.
get_groups_stored(d) == d.groups

get_groups(d) == <<all_group>> \o d.groups

\* A feed listing without the WHERE clause: used to show that C11 depends on
\* the selection by group_id.
get_feeds_unfiltered(d, gid) == <<all_feed(gid)>> \o d.feeds

get_feeds_from_group(d, gid) ==
  LET InGroup(f) == f.group_id = gid
  IN  <<all_feed(gid)>> \o SeqFilter(InGroup, d.feeds)

\* The item queries hand every row back with content "".
Blank(it) == [it EXCEPT !.content = ""]

get_feed_items(d) == SeqMap(Blank, d.feed_items)

get_feed_items_from_feed(d, fid) ==
  LET OfFeed(it) == it.feed_id = fid
  IN  SeqMap(Blank, SeqFilter(OfFeed, d.feed_items))

get_feed_items_from_group(d, gid) ==
  LET OfGroup(it) == \E i \in DOMAIN d.feeds :
                        d.feeds[i].id = it.feed_id /\ d.feeds[i].group_id = gid
  IN  SeqMap(Blank, SeqFilter(OfGroup, d.feed_items))

\* ------------------------------------------------------------------ synchronizer

FeedConfig(name, desc, link) == [name |-> name, desc |-> desc, link |-> link]

GroupConfig(name, desc, fs) == [name |-> name, desc |-> desc, feeds |-> fs]

\* A document whose entries are lost: used to show that C12 depends on the
\* entries the synchronizer reads.
ChannelNoItems(link) == [title |-> "t1", description |-> "t2", items |-> <<>>]

\* The document behind a link, as rss::Channel::read_from hands it back.
Channel(link) == [title |-> "t1", description |-> "t2", items |-> remote[link]]

\* Option::unwrap_or
unwrap_or(opt, default) == IF opt = None THEN default ELSE opt

NoLog == [fetch_failed |-> {}, group_failed |-> {}, storage_failed |-> FALSE]

SyncIdle == sync_pc \in {"idle", "returned_ok", "returned_err"}

ConfiguredLinks == UNION {{g.feeds[j].link : j \in DOMAIN g.feeds} : g \in Range(config)}

NumConfigured == Cardinality(ConfiguredLinks)

\* Between two runs of the program (the process of the last run is gone, so
\* sync_pc is "idle" afterwards) the configuration file gains a group; the
\* names are taken in order.
ConfigAddGroup(desc) ==
  /\ SyncIdle
  /\ now < MaxSyncs
  /\ Len(config) < Len(GroupNameSeq)
  /\ config' = Append(config, GroupConfig(GroupNameSeq[Len(config) + 1], desc, <<>>))
  /\ sync_pc' = "idle"
  /\ UNCHANGED <<dbVars, remote, gi, fi, ii, group_id, feed_id, channel, now,
                 sync_log, call, uiVars>>

\* A configured group gains a feed (the links are taken in order).
ConfigAddFeed(g, name) ==
  /\ SyncIdle
  /\ now < MaxSyncs
  /\ g \in DOMAIN config
  /\ NumConfigured < Len(LinkSeq)
  /\ config' = [config EXCEPT ![g].feeds =
                  Append(@, FeedConfig(name, None, LinkSeq[NumConfigured + 1]))]
  /\ sync_pc' = "idle"
  /\ UNCHANGED <<dbVars, remote, gi, fi, ii, group_id, feed_id, channel, now,
                 sync_log, call, uiVars>>

\* The link of the k-th entry published in the document behind link: the
\* first document takes the entry urls in order, the others in reverse order, so
\* two documents carry different entries at first and a common one later.
EntryUrl(link, k) ==
  IF link = LinkSeq[1] THEN ItemUrlSeq[k] ELSE ItemUrlSeq[Len(ItemUrlSeq) + 1 - k]

\* A remote document gains an entry.
RemotePublish(link) ==
  /\ SyncIdle
  /\ now < MaxSyncs
  /\ Len(remote[link]) < Len(ItemUrlSeq)
  /\ remote' = [remote EXCEPT ![link] = Append(@, EntryUrl(link, Len(@) + 1))]
  /\ sync_pc' = "idle"
  /\ UNCHANGED <<dbVars, config, gi, fi, ii, group_id, feed_id, channel, now,
                 sync_log, call, uiVars>>

\* App::new: Database::new opens a connection, init creates the tables if they
\* are missing, and refresh_feeds starts on the first configured group.
SyncStart ==
  /\ SyncIdle
  /\ now < MaxSyncs
  /\ now' = now + 1
  /\ last_insert_rowid' = 0
  /\ sync_pc' = "group"
  /\ gi' = 1 /\ fi' = 1 /\ ii' = 1
  /\ group_id' = 0 /\ feed_id' = 0 /\ channel' = <<>>
  /\ sync_log' = NoLog
  /\ UNCHANGED <<groups, feeds, feed_items, foreign_keys, config, remote, call, uiVars>>

\* As SyncGroup, but a failed upsert is only logged: the feeds of the group are
\* processed under the group id left by the group before.
SyncGroupNoSkip(io_ok) ==
  /\ sync_pc = "group"
  /\ gi <= Len(config)
  /\ LET group == config[gi]
         r == upsert_group(Db, GroupRow(0, group.name, group.desc), io_ok)
     IN  /\ groups' = r.db.groups
         /\ last_insert_rowid' = r.db.last_insert_rowid
         /\ group_id' = IF r.ok THEN r.id ELSE group_id
         /\ sync_log' = IF r.ok THEN sync_log
                        ELSE [sync_log EXCEPT !.group_failed = @ \cup {group.name},
                                              !.storage_failed = TRUE]
  /\ fi' = 1
  /\ sync_pc' = "feed"
  /\ UNCHANGED <<gi, feeds, feed_items, foreign_keys, config, remote, ii, feed_id, channel,
                 now, call, uiVars>>

\* for group in &config.groups: upsert the group; on Err log and continue.
SyncGroup(io_ok) ==
  /\ sync_pc = "group"
  /\ gi <= Len(config)
  /\ LET group == config[gi]
         r == upsert_group(Db, GroupRow(0, group.name, group.desc), io_ok)
     IN  /\ groups' = r.db.groups
         /\ last_insert_rowid' = r.db.last_insert_rowid
         /\ IF r.ok
              THEN /\ group_id' = r.id
                   /\ fi' = 1
                   /\ sync_pc' = "feed"
                   /\ UNCHANGED <<gi, sync_log>>
              ELSE /\ gi' = gi + 1
                   /\ sync_log' = [sync_log EXCEPT !.group_failed = @ \cup {group.name},
                                                   !.storage_failed = TRUE]
                   /\ UNCHANGED <<group_id, fi, sync_pc>>
  /\ UNCHANGED <<feeds, feed_items, foreign_keys, config, remote, ii, feed_id, channel,
                 now, call, uiVars>>

\* The groups are exhausted: refresh_feeds returns Ok(()).
SyncGroupsDone ==
  /\ sync_pc = "group"
  /\ gi > Len(config)
  /\ sync_pc' = "returned_ok"
  /\ UNCHANGED <<dbVars, config, remote, gi, fi, ii, group_id, feed_id, channel, now,
                 sync_log, call, uiVars>>

\* for feed in &group.feeds: fetch and parse the document (each step ends the
\* function with Err through `?`), then upsert the feed; on Err log and continue.
SyncFeed(fetch_ok, io_ok) ==
  /\ sync_pc = "feed"
  /\ fi <= Len(config[gi].feeds)
  /\ LET feed == config[gi].feeds[fi]
         ch == Channel(feed.link)
         new_feed == FeedRow(0, group_id, unwrap_or(feed.name, ch.title),
                             unwrap_or(feed.desc, ch.description), feed.link, now)
         r == upsert_feed(Db, new_feed, io_ok)
     IN  IF ~fetch_ok
           THEN /\ sync_pc' = "returned_err"
                /\ sync_log' = [sync_log EXCEPT !.fetch_failed = @ \cup {feed.link}]
                /\ UNCHANGED <<feeds, last_insert_rowid, feed_id, channel, fi, ii>>
           ELSE /\ feeds' = r.db.feeds
                /\ last_insert_rowid' = r.db.last_insert_rowid
                /\ IF r.ok
                     THEN /\ feed_id' = r.id
                          /\ channel' = ch.items
                          /\ ii' = 1
                          /\ sync_pc' = "item"
                          /\ UNCHANGED <<fi, sync_log>>
                     ELSE /\ fi' = fi + 1
                          /\ sync_log' = [sync_log EXCEPT !.storage_failed = TRUE]
                          /\ UNCHANGED <<feed_id, channel, ii, sync_pc>>
  /\ UNCHANGED <<groups, feed_items, foreign_keys, config, remote, gi, group_id, now,
                 call, uiVars>>

\* The feeds of the group are exhausted: on to the next group.
SyncFeedsDone ==
  /\ sync_pc = "feed"
  /\ fi > Len(config[gi].feeds)
  /\ gi' = gi + 1
  /\ sync_pc' = "group"
  /\ UNCHANGED <<dbVars, config, remote, fi, ii, group_id, feed_id, channel, now,
                 sync_log, call, uiVars>>

\* for item in channel.items(): upsert the entry with content "" and read
\* false; on Err log only. The entry's RFC 2822 date does not parse as a
\* DateTime<Utc>, so pub_date is Utc::now().
SyncItem(io_ok) ==
  /\ sync_pc = "item"
  /\ ii <= Len(channel)
  /\ LET feed_item == ItemRow(0, feed_id, "t1", channel[ii], "t2", "", FALSE, now)
         r == upsert_feed_item(Db, feed_item, io_ok)
     IN  /\ feed_items' = r.db.feed_items
         /\ last_insert_rowid' = r.db.last_insert_rowid
         /\ sync_log' = IF r.ok THEN sync_log
                        ELSE [sync_log EXCEPT !.storage_failed = TRUE]
  /\ ii' = ii + 1
  /\ UNCHANGED <<groups, feeds, foreign_keys, config, remote, sync_pc, gi, fi, group_id,
                 feed_id, channel, now, call, uiVars>>

\* The entries of the document are exhausted: on to the next feed.
SyncItemsDone ==
  /\ sync_pc = "item"
  /\ ii > Len(channel)
  /\ fi' = fi + 1
  /\ sync_pc' = "feed"
  /\ UNCHANGED <<dbVars, config, remote, gi, ii, group_id, feed_id, channel, now,
                 sync_log, call, uiVars>>

\* ------------------------------------------------------------------ actions (action.rs)

\* An Action value: its variant, its tab index (0 when the variant has none),
\* its scalar payload (a group, feed or item id, or an extracted content;
\* 0 when the variant has none) and its list payload (ids of the rows carried).
Act(type, idx, arg, data) == [type |-> type, idx |-> idx, arg |-> arg, data |-> data]

NoAct == Act("None", 0, 0, <<>>)

NewTabTypes == {"NewTabFeedView", "NewTabArticleViewAll", "NewTabArticleViewFeed",
                "NewTabArticleViewGroup"}

Id(row) == row.id

Ids(rows) == SeqMap(Id, rows)

\* A sender that puts msgs in front of what is queued: used to show that C1
\* depends on the order send keeps.
SendFront(q, msgs) == msgs \o q

\* UnboundedSender::send for each of msgs in turn.
Send(q, msgs) == q \o msgs

\* ------------------------------------------------------------------ tab content components

\* One tab content component. kind tells GroupView, FeedView and ArticleView
\* apart; an ArticleView carries its ArticleList (list, has_list, state,
\* list_idx, list_active) and its ArticleReader (reader_idx, content,
\* reader_active). state is ListState.selected, -1 for None; content 0 is None.
\* calls is a history field: the calls of update the component has received
\* for the Action in hand.
Component(kind, uid, idx, group, has_list) ==
  [kind |-> kind, uid |-> uid, idx |-> idx, selected_idx |-> idx, group |-> group,
   list |-> <<>>, has_list |-> has_list, state |-> 0, mode |-> "GroupView", calls |-> 0,
   list_idx |-> idx, list_active |-> TRUE,
   reader_idx |-> idx, content |-> 0, reader_active |-> FALSE]

GroupView_new == Component("GroupView", 0, 0, 0, TRUE)

FeedView_new(uid, idx, group) == Component("FeedView", uid, idx, group, TRUE)

ArticleView_new(uid, idx) == Component("ArticleView", uid, idx, 0, FALSE)

\* What a handler hands back: the component after it, the Actions it sent
\* through its command_tx, and whether it panicked.
Handled(c, sends, panic) == [c |-> c, sends |-> sends, panic |-> panic]

\* state.selected().unwrap_or(0)
Selected(c) == IF c.state = -1 THEN 0 ELSE c.state

\* Stands for usize::MAX = 2^64 - 1, which is beyond the model's integers: a
\* selection that has wrapped to usize::MAX - d is held as UsizeMax - d.
UsizeMax == 1073741823

\* 2^64 % n
TwoTo64Mod(n) == LET a == 65536 % n
                     b == (a * a) % n
                 IN  (b * b) % n

\* The three arms shared by the list components: next, previous (both panic
\* on an empty list: remainder by zero, and len() - 1 below zero), and open.
\* A build without overflow checks wraps instead: len() - 1 on an empty list
\* is usize::MAX, and usize::MAX + 1 is 0.
ListKey(c, key, open) ==
  IF key = "j"
    THEN IF Len(c.list) = 0 THEN Handled(c, <<>>, TRUE)
         ELSE IF Selected(c) = UsizeMax
           THEN Handled([c EXCEPT !.state = 0], <<>>, overflow_checks)
         ELSE IF UsizeMax - Selected(c) <= MaxWrapped + 1
           THEN Handled([c EXCEPT !.state = (TwoTo64Mod(Len(c.list))
                                             + Len(c.list) * (MaxWrapped + 1)
                                             - (UsizeMax - Selected(c))) % Len(c.list)],
                        <<>>, FALSE)
         ELSE Handled([c EXCEPT !.state = (Selected(c) + 1) % Len(c.list)], <<>>, FALSE)
  ELSE IF key = "k"
    THEN IF Selected(c) = 0
           THEN IF Len(c.list) = 0
                  THEN IF overflow_checks THEN Handled(c, <<>>, TRUE)
                       ELSE Handled([c EXCEPT !.state = UsizeMax], <<>>, FALSE)
                ELSE Handled([c EXCEPT !.state = Len(c.list) - 1], <<>>, FALSE)
           ELSE Handled([c EXCEPT !.state = Selected(c) - 1], <<>>, FALSE)
  ELSE IF key = "l"
    THEN IF c.state = -1 \/ c.state + 1 > Len(c.list) THEN Handled(c, <<>>, TRUE)
         ELSE Handled(c, open, FALSE)
  ELSE Handled(c, <<>>, FALSE)

\* GroupView::handle_key_events
GroupView_handle_key_events(c, key) ==
  IF c.selected_idx = c.idx
    THEN LET sel == IF c.state + 1 \in DOMAIN c.list THEN c.list[c.state + 1] ELSE 0
         IN  ListKey(c, key, IF sel = -1
                               THEN <<Act("NewTabArticleViewAll", 0, 0, <<>>)>>
                               ELSE <<Act("NewTabFeedView", 0, sel, <<>>)>>)
    ELSE Handled(c, <<>>, FALSE)

\* FeedView::handle_key_events
FeedView_handle_key_events(c, key) ==
  IF c.selected_idx = c.idx
    THEN LET sel == IF c.state + 1 \in DOMAIN c.list THEN c.list[c.state + 1] ELSE 0
         IN  ListKey(c, key, IF sel = -1
                               THEN <<Act("NewTabArticleViewGroup", 0, c.group, <<>>)>>
                               ELSE <<Act("NewTabArticleViewFeed", 0, sel, <<>>)>>)
    ELSE Handled(c, <<>>, FALSE)

\* ArticleList::handle_key_events; the Action carries the index the list was
\* constructed with (ArticleList::new(idx), RequestUpdateReader(usize, FeedItem)).
ArticleList_handle_key_events(c, key) ==
  IF c.list_active /\ c.has_list
    THEN LET sel == IF c.state + 1 \in DOMAIN c.list THEN c.list[c.state + 1] ELSE 0
         IN  ListKey(c, key, <<Act("RequestUpdateReader", c.list_idx, sel, <<>>),
                               Act("ActivateReader", 0, 0, <<>>)>>)
    ELSE Handled(c, <<>>, FALSE)

\* ArticleReader::handle_key_events (the scroll position is not modelled)
ArticleReader_handle_key_events(c, key) ==
  IF c.reader_active /\ key = "h"
    THEN Handled([c EXCEPT !.reader_active = FALSE],
                 <<Act("ActivateFeedList", 0, 0, <<>>)>>, FALSE)
    ELSE Handled(c, <<>>, FALSE)

\* ArticleView::handle_events: the list, then the reader.
ArticleView_handle_events(c, key) ==
  LET l == ArticleList_handle_key_events(c, key)
      r == ArticleReader_handle_key_events(l.c, key)
  IN  IF l.panic THEN l ELSE Handled(r.c, l.sends \o r.sends, r.panic)

\* Component::handle_events of one tab content component for a key event.
Child_handle_events(c, key) ==
  IF c.kind = "GroupView" THEN GroupView_handle_key_events(c, key)
  ELSE IF c.kind = "FeedView" THEN FeedView_handle_key_events(c, key)
  ELSE ArticleView_handle_events(c, key)

\* GroupView::update
GroupView_update(c, a) ==
  IF a.type = "Refresh" THEN [c EXCEPT !.list = a.data]
  ELSE IF a.type = "ChangeTab" THEN [c EXCEPT !.selected_idx = a.idx]
  ELSE IF a.type = "ModeChange" THEN [c EXCEPT !.mode = a.arg]
  ELSE c

\* FeedView::update
FeedView_update(c, a) ==
  IF a.type = "ChangeTab" THEN [c EXCEPT !.selected_idx = a.idx]
  ELSE IF a.type = "RemoveTab"
    THEN IF c.idx > a.idx THEN [c EXCEPT !.idx = c.idx - 1] ELSE c
  ELSE IF a.type = "UpdateFeedView"
    THEN IF c.idx = a.idx THEN [c EXCEPT !.list = a.data] ELSE c
  ELSE c

\* A list that stays active when the reader is activated: used to show that
\* C37 depends on ActivateReader deactivating the list.
ArticleList_update_stays_active(c, a) ==
  IF a.type = "ModeChange"
    THEN IF a.arg = "ViewArticles" THEN [c EXCEPT !.list = a.data, !.has_list = TRUE]
         ELSE c
  ELSE IF a.type = "ActivateFeedList" THEN [c EXCEPT !.state = 0, !.list_active = TRUE]
  ELSE IF a.type = "ActivateReader" THEN [c EXCEPT !.state = -1]
  ELSE c

\* ArticleList::update; ModeChange(ViewArticles(feed_items)) hands over the
\* items and leaves the list's own mode as it was.
ArticleList_update(c, a) ==
  IF a.type = "ModeChange"
    THEN IF a.arg = "ViewArticles" THEN [c EXCEPT !.list = a.data, !.has_list = TRUE]
         ELSE c
  ELSE IF a.type = "ActivateFeedList" THEN [c EXCEPT !.state = 0, !.list_active = TRUE]
  ELSE IF a.type = "ActivateReader" THEN [c EXCEPT !.state = -1, !.list_active = FALSE]
  ELSE c

\* A reader that takes every UpdateReader, whatever its index: used to show
\* that C5 depends on the comparison with the self-index.
ArticleReader_update_any(c, a) ==
  IF a.type = "UpdateReader" THEN [c EXCEPT !.content = a.arg]
  ELSE IF a.type = "ActivateFeedList" THEN [c EXCEPT !.reader_active = FALSE]
  ELSE IF a.type = "ActivateReader" THEN [c EXCEPT !.reader_active = TRUE]
  ELSE c

\* A reader that drops an UpdateReader for its index while a later request or
\* result for the same index is queued: used to show that C16 depends on the
\* reader having no such guard.
ArticleReader_update_guarded(c, a) ==
  IF a.type = "UpdateReader"
    THEN IF c.reader_idx = a.idx
            /\ ~\E k \in 2..Len(queue) :
                   /\ queue[k].type \in {"RequestUpdateReader", "UpdateReader"}
                   /\ queue[k].idx = a.idx
           THEN [c EXCEPT !.content = a.arg] ELSE c
  ELSE IF a.type = "ActivateFeedList" THEN [c EXCEPT !.reader_active = FALSE]
  ELSE IF a.type = "ActivateReader" THEN [c EXCEPT !.reader_active = TRUE]
  ELSE c

\* ArticleReader::update
ArticleReader_update(c, a) ==
  IF a.type = "UpdateReader"
    THEN IF c.reader_idx = a.idx THEN [c EXCEPT !.content = a.arg] ELSE c
  ELSE IF a.type = "ActivateFeedList" THEN [c EXCEPT !.reader_active = FALSE]
  ELSE IF a.type = "ActivateReader" THEN [c EXCEPT !.reader_active = TRUE]
  ELSE c

\* ArticleView::update: the list, the reader, then its own arms.
ArticleView_update(c, a) ==
  LET c2 == ArticleReader_update(ArticleList_update(c, a), a)
  IN  IF a.type = "ChangeTab" THEN [c2 EXCEPT !.selected_idx = a.idx]
      ELSE IF a.type = "UpdateArticleView"
        THEN IF c2.idx = a.idx THEN [c2 EXCEPT !.list = a.data, !.has_list = TRUE] ELSE c2
      ELSE c2

\* Component::update of one tab content component.
\* A fan-out that reaches the component only while its tab is the selected one.
Child_update_selected(c, a) ==
  IF c.idx # c.selected_idx THEN c
  ELSE LET d == IF c.kind = "GroupView" THEN GroupView_update(c, a)
                ELSE IF c.kind = "FeedView" THEN FeedView_update(c, a)
                ELSE ArticleView_update(c, a)
       IN  [d EXCEPT !.calls = @ + 1]

\* component.update(action.clone()) on a Box<dyn Component>: the update of the
\* component's own type runs; calls counts the calls the component has received.
Child_update(c, a) ==
  LET d == IF c.kind = "GroupView" THEN GroupView_update(c, a)
           ELSE IF c.kind = "FeedView" THEN FeedView_update(c, a)
           ELSE ArticleView_update(c, a)
  IN  [d EXCEPT !.calls = @ + 1]

\* The tabs with their call counts at zero, as an Action is taken off the queue.
Undelivered(ts) == [p \in DOMAIN ts |-> [ts[p] EXCEPT !.calls = 0]]

\* ------------------------------------------------------------------ tab viewer

\* The TabViewer's own fields.
TV == [tabs |-> tabs, selected_tab |-> selected_tab, tab_bar |-> tab_bar]

\* Vec::remove at 0-based index i
RemoveAt(s, i) == SubSeq(s, 1, i) \o SubSeq(s, i + 2, Len(s))

TabBar_new == [tabs |-> <<>>, selected_tab |-> 0]

\* TabBar::add_tab; a label is written as the uid of the component it names.
TabBar_add_tab(bar, label) == [bar EXCEPT !.tabs = Append(@, label)]

\* A strip that drops its last label whichever tab is closed: used to show
\* that C35 depends on the strip removing the label at the closed position.
TabBar_remove_last(bar, tab_idx) == [bar EXCEPT !.tabs = SubSeq(@, 1, Len(@) - 1)]

\* TabBar::remove_tab
TabBar_remove_tab(bar, tab_idx) == [bar EXCEPT !.tabs = RemoveAt(@, tab_idx)]

\* TabBar::select
TabBar_select(bar, tab_idx) == [bar EXCEPT !.selected_tab = tab_idx]

\* TabViewer::new
TabViewer_new ==
  [tabs |-> <<GroupView_new>>, selected_tab |-> 0,
   tab_bar |-> TabBar_add_tab(TabBar_new, 0)]

\* What a TabViewer method hands back: the viewer after it, the Actions sent
\* through command_tx, the Action returned to the caller (a sequence of length
\* 0 or 1) and whether it panicked.
TvHandled(tv, sends, ret, panic) == [tv |-> tv, sends |-> sends, ret |-> ret, panic |-> panic]

\* TabViewer::add_new_tab
add_new_tab(tv, component) ==
  LET ts == Append(tv.tabs, component)
      sel == Len(ts) - 1
  IN  TvHandled([tabs |-> ts, selected_tab |-> sel,
                 tab_bar |-> TabBar_select(TabBar_add_tab(tv.tab_bar, component.uid),
                                           Len(ts) - 1)],
                <<Act("ChangeTab", sel, 0, <<>>)>>, <<>>, FALSE)

\* TabViewer::remove_tab; the loop over the later tabs has an empty body.
remove_tab(tv, tab_idx) ==
  [tv EXCEPT !.tabs = RemoveAt(@, tab_idx),
             !.tab_bar = TabBar_remove_tab(@, tab_idx)]

\* A select_tab that tells nobody: used to show that C25 depends on the
\* ChangeTab Action.
select_tab_silent(tv, idx) ==
  TvHandled([tv EXCEPT !.selected_tab = idx, !.tab_bar = TabBar_select(@, idx)],
            <<>>, <<>>, FALSE)

\* TabViewer::select_tab
select_tab(tv, idx) ==
  TvHandled([tv EXCEPT !.selected_tab = idx, !.tab_bar = TabBar_select(@, idx)],
            <<Act("ChangeTab", idx, 0, <<>>)>>, <<>>, FALSE)

\* A close-tab arm that removes the tab and leaves the selection where it
\* was: used to show that C4 depends on select_tab(selected_tab - 1).
close_tab_stay(tv) ==
  IF tv.selected_tab # 0
    THEN TvHandled(remove_tab(tv, tv.selected_tab), <<>>,
                   <<Act("RemoveTab", tv.selected_tab, 0, <<>>)>>, FALSE)
    ELSE TvHandled(tv, <<>>, <<>>, FALSE)

\* The close-tab arm of TabViewer::handle_key_events.
close_tab(tv) ==
  IF tv.selected_tab # 0
    THEN IF tv.selected_tab >= Len(tv.tabs) THEN TvHandled(tv, <<>>, <<>>, TRUE)
         ELSE LET r == select_tab(remove_tab(tv, tv.selected_tab), tv.selected_tab - 1)
              IN  TvHandled(r.tv, r.sends,
                            <<Act("RemoveTab", r.tv.selected_tab + 1, 0, <<>>)>>, FALSE)
    ELSE TvHandled(tv, <<>>, <<>>, FALSE)

\* TabViewer::handle_key_events; "H" and "L" are the keys pressed with SHIFT.
TabViewer_handle_key_events(tv, key) ==
  IF key = "H"
    THEN IF tv.selected_tab = 0 THEN select_tab(tv, Len(tv.tabs) - 1)
         ELSE select_tab(tv, tv.selected_tab - 1)
  ELSE IF key = "L" THEN select_tab(tv, (tv.selected_tab + 1) % Len(tv.tabs))
  ELSE IF key = "x" THEN close_tab(tv)
  ELSE TvHandled(tv, <<>>, <<>>, FALSE)

RECURSIVE Children_handle_events(_, _)
\* for component in &mut self.tabs { component.handle_events(event)?; }
\* The Action a child returns is dropped; what it sent stays sent.
Children_handle_events(ts, key) ==
  IF ts = <<>> THEN [tabs |-> <<>>, sends |-> <<>>, panic |-> FALSE]
  ELSE LET h == Child_handle_events(Head(ts), key)
           rest == Children_handle_events(Tail(ts), key)
       IN  IF h.panic THEN [tabs |-> ts, sends |-> h.sends, panic |-> TRUE]
           ELSE [tabs |-> <<h.c>> \o rest.tabs, sends |-> h.sends \o rest.sends,
                 panic |-> rest.panic]

\* TabViewer::handle_events for a key event: the children, then its own keys.
TabViewer_handle_events(tv, key) ==
  LET ch == Children_handle_events(tv.tabs, key)
      r == TabViewer_handle_key_events([tv EXCEPT !.tabs = ch.tabs], key)
  IN  IF ch.panic THEN TvHandled(tv, ch.sends, <<>>, TRUE)
      ELSE TvHandled(r.tv, ch.sends \o r.sends, r.ret, r.panic)

\* The Request* Action each tab-creating arm of TabViewer::update returns.
\* len is tabs.len() after add_new_tab.
RequestFor(a, len) ==
  IF a.type = "NewTabFeedView" THEN Act("RequestUpdateFeedView", len - 1, a.arg, <<>>)
  ELSE IF a.type = "NewTabArticleViewAll"
    THEN Act("RequestUpdateArticleViewAll", len - 1, 0, <<>>)
  ELSE IF a.type = "NewTabArticleViewFeed"
    THEN Act("RequestUpdateArticleViewFeed", len - 1, a.arg, <<>>)
  ELSE Act("RequestUpdateArticleViewGroup", len, a.arg, <<>>)

\* TabViewer::update: every child's update, then its own arms. uid names the
\* component a tab-creating arm constructs.
TabViewer_update(tv, a, uid) ==
  LET Upd(c) == Child_update(c, a)
      tv2 == [tv EXCEPT !.tabs = SeqMap(Upd, tv.tabs)]
  IN  IF a.type \in NewTabTypes
        THEN LET component == IF a.type = "NewTabFeedView"
                                THEN FeedView_new(uid, Len(tv2.tabs), a.arg)
                                ELSE ArticleView_new(uid, Len(tv2.tabs))
                 r == add_new_tab(tv2, component)
             IN  TvHandled(r.tv, r.sends, <<RequestFor(a, Len(r.tv.tabs))>>, FALSE)
        ELSE TvHandled(tv2, <<>>, <<>>, FALSE)

\* TabViewer::update, the ModeChange arm: the mode the viewer holds after the
\* Action a.
TabViewer_mode(m, a) == IF a.type = "ModeChange" THEN a.arg ELSE m

\* TabViewer::draw: the tab strip, then the selected tab if there is one.
\* Handed back is the uid of the tab content component drawn, -1 for none.
TabViewer_draw(tv) ==
  IF tv.selected_tab + 1 \in DOMAIN tv.tabs THEN tv.tabs[tv.selected_tab + 1].uid ELSE -1

\* ------------------------------------------------------------------ dispatch loop (App::run)

Keys == {"j", "k", "l", "h", "x", "H", "L", "q"}

CountNewTabs(msgs) == Cardinality({i \in DOMAIN msgs : msgs[i].type \in NewTabTypes})

\* The root's arm for a data request: the listing is read from storage and
\* handed back in the Update* Action for the same tab index.
RootRequest(a) ==
  IF a.type = "RequestUpdateFeedView"
    THEN <<Act("UpdateFeedView", a.idx, 0, Ids(get_feeds_from_group(Db, a.arg)))>>
  ELSE IF a.type = "RequestUpdateArticleViewAll"
    THEN <<Act("UpdateArticleView", a.idx, 0, Ids(get_feed_items(Db)))>>
  ELSE IF a.type = "RequestUpdateArticleViewGroup"
    THEN <<Act("UpdateArticleView", a.idx, 0, Ids(get_feed_items_from_group(Db, a.arg)))>>
  ELSE IF a.type = "RequestUpdateArticleViewFeed"
    THEN <<Act("UpdateArticleView", a.idx, 0, Ids(get_feed_items_from_feed(Db, a.arg)))>>
  ELSE <<>>

\* A root that answers a failed extraction with an empty UpdateReader: used to
\* show that C14 depends on the Err arm sending nothing.
RootExtractBlank(a, extract_ok) ==
  IF a.type = "RequestUpdateReader"
    THEN <<Act("UpdateReader", a.idx, IF extract_ok THEN a.arg ELSE 0, <<>>)>>
    ELSE <<>>

\* The root's arm for RequestUpdateReader: the extraction is awaited in place;
\* Ok sends UpdateReader with the content (written as the item's id), Err logs.
RootExtract(a, extract_ok) ==
  IF a.type = "RequestUpdateReader" /\ extract_ok
    THEN <<Act("UpdateReader", a.idx, a.arg, <<>>)>>
    ELSE <<>>

\* The root's own classification of a key event: 'q' is the quit shortcut (a
\* root that honours it only on the first tab is used to show what C19
\* depends on).
RootClassifyFocused(key) ==
  IF key = "q" /\ selected_tab = 0 THEN <<Act("Quit", 0, 0, <<>>)>> ELSE <<>>

RootClassify(key) ==
  IF key = "q" THEN <<Act("Quit", 0, 0, <<>>)>> ELSE <<>>

\* tui.next() hands back a key event: the root sends Quit for 'q', then every
\* root component handles the event (tab strip and info bar handle nothing).
KeyEvent(key) ==
  /\ pc = "wait"
  /\ LET root == RootClassify(key)
         h == TabViewer_handle_events(TV, key)
         msgs == root \o h.sends \o h.ret
     IN  /\ (next_uid - 1) + CountNewTabs(msgs) <= MaxOpened
         /\ \A p \in DOMAIN h.tv.tabs : h.tv.tabs[p].state # UsizeMax - MaxWrapped - 1
         /\ IF h.panic
              THEN /\ pc' = "panic"
                   /\ UNCHANGED <<queue, tabs, selected_tab, tab_bar, closed>>
              ELSE /\ pc' = "drain"
                   /\ queue' = Send(queue, msgs)
                   /\ tabs' = h.tv.tabs
                   /\ selected_tab' = h.tv.selected_tab
                   /\ tab_bar' = h.tv.tab_bar
                   /\ closed' = closed \cup ({c.uid : c \in Range(tabs)}
                                             \ {c.uid : c \in Range(h.tv.tabs)})
  /\ last_event' = key
  /\ UNCHANGED <<should_quit, should_suspend, mode, tv_mode, extraction, next_uid, drawn, frame,
                 last_action, dbVars, syncVars, call, show, confirm_quit, draw_err, overflow_checks>>

\* tui.next() hands back Quit, Tick, Render or Resize: the root sends the
\* Action of the same name; no component handles the event.
TermEvent(e) ==
  /\ pc = "wait"
  /\ queue' = Send(queue, <<Act(e, 0, 0, <<>>)>>)
  /\ pc' = "drain"
  /\ last_event' = e
  /\ UNCHANGED <<should_quit, should_suspend, mode, tv_mode, extraction, tabs, selected_tab,
                 tab_bar, next_uid, closed, drawn, frame, last_action, dbVars, syncVars, call, show, confirm_quit, draw_err, overflow_checks>>

\* The root's arms for Suspend and Resume: the suspend flag after the Action
\* a has been matched (a Resume that is ignored is used to show what C18
\* depends on).
RootSuspendSticky(a, flag) == flag \/ a.type = "Suspend"

RootSuspend(a, flag) ==
  IF a.type = "Suspend" THEN TRUE
  ELSE IF a.type = "Resume" THEN FALSE
  ELSE flag

\* The draws of one frame. A draw is a Result: errs names the components
\* whose draw hands back Err.
DrawNames == {"tabbar", "tab_bar", "content", "infobar"}

\* TabViewer::draw with failures: `?` on the tab strip's draw and on the
\* selected tab's draw. Handed back: what was drawn, the uid of the tab
\* content drawn (-1 for none) and whether the draw returned Ok.
TabViewer_draw_result(tv, errs) ==
  IF "tab_bar" \in errs
    THEN [frame |-> {}, drawn |-> -1, ok |-> FALSE]
  ELSE IF TabViewer_draw(tv) = -1
    THEN [frame |-> {"tab_bar"}, drawn |-> -1, ok |-> TRUE]
  ELSE IF "content" \in errs
    THEN [frame |-> {"tab_bar"}, drawn |-> -1, ok |-> FALSE]
  ELSE [frame |-> {"tab_bar", "content"}, drawn |-> TabViewer_draw(tv), ok |-> TRUE]

\* The closure handed to tui.draw in the Render and Resize arms: the tab
\* strip, the TabViewer and the info bar are drawn in turn, and each Err is
\* answered with one Error Action.
RootDraw(tv, errs) ==
  LET t == TabViewer_draw_result(tv, errs)
      failed == (IF "tabbar" \in errs THEN <<"tabbar">> ELSE <<>>)
                \o (IF t.ok THEN <<>> ELSE <<"tab_viewer">>)
                \o (IF "infobar" \in errs THEN <<"infobar">> ELSE <<>>)
  IN  [frame  |-> ({"tabbar", "infobar"} \ errs) \cup t.frame,
       drawn  |-> t.drawn,
       errors |-> [k \in DOMAIN failed |-> Act("Error", 0, failed[k], <<>>)]]

\* What the Render and Resize arms send.
RootErrors(a) ==
  IF a.type \in {"Render", "Resize"} THEN RootDraw(TV, draw_err).errors ELSE <<>>

\* The root's arm for ChangeToFeedView: the mode becomes ViewArticles and is
\* announced with ModeChange.
RootMode(a) ==
  IF a.type = "ChangeToFeedView"
    THEN <<Act("ModeChange", 0, "ViewArticles", Ids(get_feed_items_from_group(Db, a.arg)))>>
    ELSE <<>>

\* One turn of `while let Ok(action) = action_rx.try_recv()`: the root's arm
\* for the Action, then every root component's update (only the TabViewer has
\* one), the Action each returns being sent. The arm for RequestUpdateReader
\* awaits the extraction: the turn stops there until ExtractDone.
Drain ==
  /\ pc = "drain"
  /\ queue # <<>>
  /\ LET a == Head(queue)
         u == TabViewer_update([TV EXCEPT !.tabs = Undelivered(tabs)], a, next_uid)
     IN  /\ last_action' = a
         /\ IF a.type = "RequestUpdateReader"
              THEN /\ pc' = "extract"
                   /\ extraction' = "pending"
                   /\ queue' = Tail(queue)
                   /\ UNCHANGED <<should_quit, should_suspend, mode, tv_mode, drawn, frame,
                                  tabs, selected_tab, tab_bar, next_uid>>
              ELSE /\ should_quit' = (should_quit \/ a.type = "Quit")
                   /\ should_suspend' = RootSuspend(a, should_suspend)
                   /\ mode' = IF a.type = "ChangeToFeedView" THEN "ViewArticles" ELSE mode
                   /\ tv_mode' = TabViewer_mode(tv_mode, a)
                   /\ drawn' = IF a.type \in {"Render", "Resize"}
                                 THEN RootDraw(TV, draw_err).drawn ELSE drawn
                   /\ frame' = IF a.type \in {"Render", "Resize"}
                                 THEN RootDraw(TV, draw_err).frame ELSE frame
                   /\ queue' = Send(Send(Send(Send(Send(Tail(queue), RootErrors(a)),
                                                   RootMode(a)),
                                              RootRequest(a)), u.sends), u.ret)
                   /\ tabs' = u.tv.tabs
                   /\ selected_tab' = u.tv.selected_tab
                   /\ tab_bar' = u.tv.tab_bar
                   /\ next_uid' = IF a.type \in NewTabTypes THEN next_uid + 1 ELSE next_uid
                   /\ extraction' = "none"
                   /\ UNCHANGED pc
  /\ UNCHANGED <<closed, last_event, dbVars, syncVars, call, show, confirm_quit, draw_err, overflow_checks>>

\* spawn_blocking(extractor::scrape).await hands back the result: the arm
\* sends UpdateReader or logs, then the root components update on the
\* RequestUpdateReader Action, and the turn is over.
ExtractDone(extract_ok) ==
  /\ pc = "extract"
  /\ LET a == last_action
         u == TabViewer_update([TV EXCEPT !.tabs = Undelivered(tabs)], a, next_uid)
     IN  /\ queue' = Send(Send(Send(queue, RootExtract(a, extract_ok)), u.sends), u.ret)
         /\ tabs' = u.tv.tabs
         /\ selected_tab' = u.tv.selected_tab
         /\ tab_bar' = u.tv.tab_bar
  /\ extraction' = IF extract_ok THEN "ok" ELSE "err"
  /\ pc' = "drain"
  /\ UNCHANGED <<should_quit, should_suspend, mode, tv_mode, next_uid, drawn, frame, closed, last_event,
                 last_action, dbVars, syncVars, call, show, confirm_quit, draw_err, overflow_checks>>

\* The queue is empty: suspend and resume, or stop, or wait for the next event.
EndPass ==
  /\ pc = "drain"
  /\ queue = <<>>
  /\ IF should_suspend
       THEN /\ queue' = Send(queue, <<Act("Resume", 0, 0, <<>>)>>)
            /\ pc' = "wait"
       ELSE /\ pc' = IF should_quit THEN "done" ELSE "wait"
            /\ UNCHANGED queue
  /\ drawn' = -1
  /\ frame' = {}
  /\ last_event' = ""
  /\ last_action' = NoAct
  /\ extraction' = "none"
  /\ tabs' = Undelivered(tabs)
  /\ UNCHANGED <<should_quit, should_suspend, mode, tv_mode, selected_tab, tab_bar, next_uid,
                 closed, dbVars, syncVars, call, show, confirm_quit, draw_err, overflow_checks>>

\* A suspend signal: a Suspend Action is put on the queue by a sender outside
\* the loop, while the loop waits for an event or drains the queue.
SuspendSignal ==
  /\ pc \in {"wait", "drain"}
  /\ Cardinality({k \in DOMAIN queue : queue[k].type = "Suspend"}) < MaxSuspends
  /\ queue' = Send(queue, <<Act("Suspend", 0, 0, <<>>)>>)
  /\ UNCHANGED <<pc, should_quit, should_suspend, mode, tv_mode, extraction, tabs, selected_tab,
                 tab_bar, next_uid, closed, drawn, frame, last_event, last_action,
                 dbVars, syncVars, call, show, confirm_quit, draw_err, overflow_checks>>

\* ------------------------------------------------------------------ quit popup

\* QuitPopup::handle_key_events: while the popup is shown 'y' sends Quit and
\* 'n' hides it; nothing is handed back.
QuitPopup_handle_key_events(shown, key) ==
  IF shown
    THEN IF key = "y" THEN [show |-> shown, sends |-> <<Act("Quit", 0, 0, <<>>)>>]
         ELSE IF key = "n" THEN [show |-> FALSE, sends |-> <<>>]
         ELSE [show |-> shown, sends |-> <<>>]
    ELSE [show |-> shown, sends |-> <<>>]

\* QuitPopup::update: with confirm_quit set ConfirmQuit shows the popup and
\* every other Action is ignored; otherwise Quit is sent, the Action not
\* being looked at.
QuitPopup_update(shown, confirm, a) ==
  IF confirm
    THEN IF a.type = "ConfirmQuit"
           THEN [show |-> TRUE, sends |-> <<>>]
           ELSE [show |-> shown, sends |-> <<>>]
    ELSE [show |-> shown, sends |-> <<Act("Quit", 0, 0, <<>>)>>]

\* The popup is not built: App::new puts no QuitPopup among the components.
PopupOff == show = FALSE /\ confirm_quit = FALSE

PopupKeys == {"y", "n", "q", "j", "k"}
PopupActions == {"ConfirmQuit", "Quit", "Tick", "Render", "Resize", "Suspend", "Resume"}

\* A key event is handed to the popup; what it sends goes to the queue.
PopupKey(key) ==
  /\ pc = "popup"
  /\ Len(queue) < MaxSent
  /\ LET h == QuitPopup_handle_key_events(show, key)
     IN  /\ show' = h.show
         /\ queue' = Send(queue, h.sends)
  /\ last_event' = key
  /\ last_action' = NoAct
  /\ UNCHANGED <<pc, should_quit, should_suspend, mode, tv_mode, extraction, tabs, selected_tab,
                 tab_bar, next_uid, closed, drawn, frame, confirm_quit, draw_err, overflow_checks, dbVars, syncVars, call>>

\* An Action is handed to the popup's update; what it sends goes to the queue.
PopupUpdate(type) ==
  /\ pc = "popup"
  /\ Len(queue) < MaxSent
  /\ LET a == Act(type, 0, 0, <<>>)
         u == QuitPopup_update(show, confirm_quit, a)
     IN  /\ show' = u.show
         /\ queue' = Send(queue, u.sends)
         /\ last_action' = a
  /\ last_event' = ""
  /\ UNCHANGED <<pc, should_quit, should_suspend, mode, tv_mode, extraction, tabs, selected_tab,
                 tab_bar, next_uid, closed, drawn, frame, confirm_quit, draw_err, overflow_checks, dbVars, syncVars, call>>

\* ------------------------------------------------------------------ direct upsert calls

NoRow(op) ==
  IF op = "upsert_group" THEN GroupRow(0, "", "")
  ELSE IF op = "upsert_feed" THEN FeedRow(0, 0, "", "", "", 0)
  ELSE ItemRow(0, 0, "", "", "", "", FALSE, 0)

\* The record of a call: its argument, Ok/Err and the id handed back, whether
\* the call before it on this table had the same argument and was Ok, and the
\* row of the argument's key and the number of rows before the call.
Call(op, arg, ok, id, rep, row_before, len_before) ==
  [op |-> op, arg |-> arg, ok |-> ok, id |-> id, rep |-> rep,
   row_before |-> row_before, len_before |-> len_before]

NoCall(op) == Call(op, NoRow(op), FALSE, 0, FALSE, NoRow(op), 0)

\* The row of a table under a unique key, NoRow when there is none.
GroupByName(table, name) ==
  IF \E i \in DOMAIN table : table[i].name = name
    THEN table[CHOOSE i \in DOMAIN table : table[i].name = name]
    ELSE NoRow("upsert_group")

ByUrl(table, url, op) ==
  IF \E i \in DOMAIN table : table[i].url = url
    THEN table[CHOOSE i \in DOMAIN table : table[i].url = url]
    ELSE NoRow(op)

\* The content an item is written with: "" and read = false as the
\* synchronizer writes it, or an extracted body together with read = true.
Contents == {"", "c1"}

Times == 1..MaxSyncs

CallUpsertGroup(g, io_ok) ==
  /\ call.op = "upsert_group"
  /\ LET r == upsert_group(Db, g, io_ok)
     IN  /\ groups' = r.db.groups
         /\ last_insert_rowid' = r.db.last_insert_rowid
         /\ call' = Call("upsert_group", g, r.ok, r.id, call.ok /\ call.arg = g,
                         GroupByName(groups, g.name), Len(groups))
  /\ UNCHANGED <<feeds, feed_items, foreign_keys, syncVars, uiVars>>

CallUpsertFeed(f, io_ok) ==
  /\ call.op = "upsert_feed"
  /\ LET r == upsert_feed(Db, f, io_ok)
     IN  /\ feeds' = r.db.feeds
         /\ last_insert_rowid' = r.db.last_insert_rowid
         /\ call' = Call("upsert_feed", f, r.ok, r.id, call.ok /\ call.arg = f,
                         ByUrl(feeds, f.url, "upsert_feed"), Len(feeds))
  /\ UNCHANGED <<groups, feed_items, foreign_keys, syncVars, uiVars>>

CallUpsertFeedItem(it, io_ok) ==
  /\ call.op = "upsert_feed_item"
  /\ LET r == upsert_feed_item(Db, it, io_ok)
     IN  /\ feed_items' = r.db.feed_items
         /\ last_insert_rowid' = r.db.last_insert_rowid
         /\ call' = Call("upsert_feed_item", it, r.ok, r.id, call.ok /\ call.arg = it,
                         ByUrl(feed_items, it.url, "upsert_feed_item"), Len(feed_items))
  /\ UNCHANGED <<groups, feeds, foreign_keys, syncVars, uiVars>>

\* ------------------------------------------------------------------ specifications

\* The storage after the first synchronization of one group "g1" with one feed
\* "u1" whose document has the entries "a" and "b".
SyncedConfig == <<GroupConfig("g1", "t1", <<FeedConfig(None, None, "u1")>>)>>
SyncedRemote == [l \in Links |-> IF l = "u1" THEN <<"a", "b">> ELSE <<>>]
SyncedGroups == <<GroupRow(1, "g1", "t1")>>
SyncedFeeds  == <<FeedRow(1, 1, "t1", "t2", "u1", 1)>>
SyncedItems  == <<ItemRow(1, 1, "t1", "a", "t2", "", FALSE, 1),
                  ItemRow(2, 1, "t1", "b", "t2", "", FALSE, 1)>>

SyncOff ==
  /\ sync_pc = "returned_ok" /\ gi = 1 /\ fi = 1 /\ ii = 1
  /\ group_id = 0 /\ feed_id = 0 /\ channel = <<>> /\ sync_log = NoLog

UiOff ==
  /\ pc = "off" /\ queue = <<>> /\ should_quit = FALSE /\ should_suspend = FALSE
  /\ mode = "GroupView" /\ tv_mode = "Main" /\ extraction = "none"
  /\ tabs = <<>> /\ selected_tab = 0 /\ tab_bar = TabBar_new
  /\ next_uid = 0 /\ closed = {} /\ drawn = -1 /\ frame = {} /\ last_event = "" /\ last_action = NoAct
  /\ PopupOff /\ draw_err = {} /\ overflow_checks = TRUE

\* App::new has synchronized and built the components; App::run has sent the
\* one Refresh and is about to wait for the first terminal event.
Started ==
  /\ groups = SyncedGroups /\ feeds = SyncedFeeds /\ feed_items = SyncedItems
  /\ last_insert_rowid = 2
  /\ foreign_keys = TRUE
  /\ config = SyncedConfig /\ remote = SyncedRemote /\ now = 1
  /\ SyncOff
  /\ call = NoCall("upsert_group")
  /\ pc = "wait"
  /\ queue = <<Act("Refresh", 0, 0, Ids(get_groups(Db)))>>
  /\ should_quit = FALSE /\ should_suspend = FALSE
  /\ mode = "GroupView" /\ tv_mode = "Main" /\ extraction = "none"
  /\ tabs = TabViewer_new.tabs
  /\ selected_tab = TabViewer_new.selected_tab
  /\ tab_bar = TabViewer_new.tab_bar
  /\ next_uid = 1 /\ closed = {} /\ drawn = -1 /\ frame = {} /\ last_event = "" /\ last_action = NoAct
  /\ PopupOff

\* Every draw of the components of src/ hands back Ok.
Init == Started /\ draw_err = {} /\ overflow_checks = TRUE

Next ==
  \/ \E key \in Keys : KeyEvent(key)
  \/ \E e \in {"Quit", "Tick", "Render", "Resize"} : TermEvent(e)
  \/ Drain
  \/ \E extract_ok \in BOOLEAN : ExtractDone(extract_ok)
  \/ EndPass

Spec == Init /\ [][Next]_vars

\* The dispatch loop with suspend signals. The keys are those that open no
\* tab: the tabs' content has no bearing on the quit and suspend flags.
LoopKeys == {"q", "j", "x", "H", "L"}

NextLoop ==
  \/ \E key \in LoopKeys : KeyEvent(key)
  \/ \E e \in {"Quit", "Tick", "Render", "Resize"} : TermEvent(e)
  \/ SuspendSignal
  \/ Drain
  \/ EndPass

SpecLoop == Init /\ [][NextLoop]_vars

\* The dispatch loop when draws may fail: any set of components may have a
\* draw that hands back Err. The keys are those that open no tab.
InitDraw == Started /\ draw_err \in SUBSET DrawNames /\ overflow_checks = TRUE

NextDraw ==
  \/ \E key \in LoopKeys : KeyEvent(key)
  \/ \E e \in {"Quit", "Tick", "Render", "Resize"} : TermEvent(e)
  \/ Drain
  \/ EndPass

SpecDraw == InitDraw /\ [][NextDraw]_vars

\* Nothing is stored and nothing is configured; the application is not running.
InitSync ==
  /\ groups = <<>> /\ feeds = <<>> /\ feed_items = <<>>
  /\ last_insert_rowid = 0
  /\ foreign_keys \in BOOLEAN
  /\ config = <<>> /\ remote = [l \in Links |-> <<>>] /\ now = 0
  /\ sync_pc = "idle" /\ gi = 1 /\ fi = 1 /\ ii = 1
  /\ group_id = 0 /\ feed_id = 0 /\ channel = <<>> /\ sync_log = NoLog
  /\ call = NoCall("upsert_group")
  /\ UiOff

NextSync ==
  \/ \E desc \in {"t1"} : ConfigAddGroup(desc)
  \/ \E g \in DOMAIN config, name \in {None, "t2"} : ConfigAddFeed(g, name)
  \/ \E link \in Links : RemotePublish(link)
  \/ SyncStart
  \/ \E io_ok \in BOOLEAN : SyncGroup(io_ok)
  \/ SyncGroupsDone
  \/ \E fetch_ok \in BOOLEAN, io_ok \in BOOLEAN : SyncFeed(fetch_ok, io_ok)
  \/ SyncFeedsDone
  \/ \E io_ok \in BOOLEAN : SyncItem(io_ok)
  \/ SyncItemsDone

SpecSync == InitSync /\ [][NextSync]_vars

\* A QuitPopup on its own, after QuitPopup::new and register_config_handler
\* with either setting of confirm_quit; it is handed keys and Actions.
InitPopup ==
  /\ groups = <<>> /\ feeds = <<>> /\ feed_items = <<>>
  /\ last_insert_rowid = 0
  /\ foreign_keys = TRUE
  /\ config = <<>> /\ remote = [l \in Links |-> <<>>] /\ now = 0
  /\ SyncOff
  /\ call = NoCall("upsert_group")
  /\ pc = "popup" /\ queue = <<>> /\ should_quit = FALSE /\ should_suspend = FALSE
  /\ mode = "GroupView" /\ tv_mode = "Main" /\ extraction = "none"
  /\ tabs = <<>> /\ selected_tab = 0 /\ tab_bar = TabBar_new
  /\ next_uid = 0 /\ closed = {} /\ drawn = -1 /\ frame = {} /\ last_event = "" /\ last_action = NoAct
  /\ show = FALSE
  /\ confirm_quit \in BOOLEAN
  /\ draw_err = {} /\ overflow_checks = TRUE

NextPopup ==
  \/ \E key \in PopupKeys : PopupKey(key)
  \/ \E type \in PopupActions : PopupUpdate(type)

SpecPopup == InitPopup /\ [][NextPopup]_vars

\* A connection on which one of the three upserts is called again and again:
\* on an empty table, the tables it refers to holding one row each.
InitDb ==
  /\ \E op \in {"upsert_group", "upsert_feed", "upsert_feed_item"} :
        /\ call = NoCall(op)
        /\ groups = IF op = "upsert_group" THEN <<>> ELSE <<GroupRow(1, "g1", "t1")>>
        /\ feeds = IF op = "upsert_feed_item" THEN <<FeedRow(1, 1, "t1", "t2", "u1", 1)>>
                   ELSE <<>>
  /\ feed_items = <<>>
  /\ last_insert_rowid = 0
  /\ foreign_keys \in BOOLEAN
  /\ config = <<>> /\ remote = [l \in Links |-> <<>>] /\ now = 0
  /\ SyncOff
  /\ UiOff

NextDb ==
  \/ \E name \in GroupNames, desc \in Texts, io_ok \in BOOLEAN :
        CallUpsertGroup(GroupRow(0, name, desc), io_ok)
  \/ \E gid \in 0..1, name \in Texts, desc \in Texts, url \in Links, t \in Times,
        io_ok \in BOOLEAN :
        CallUpsertFeed(FeedRow(0, gid, name, desc, url, t), io_ok)
  \/ \E fid \in 0..1, url \in ItemUrls, t \in Times, io_ok \in BOOLEAN,
        content \in Contents :
        CallUpsertFeedItem(ItemRow(0, fid, "t1", url, "t2", content, content # "", t),
                           io_ok)

SpecDb == InitDb /\ [][NextDb]_vars

\* ------------------------------------------------------------------ claims

DrainStep == pc = "drain" /\ queue # <<>>

\* C1: within a drain pass Actions are processed in enqueue order. Every drain
\* step processes the head of the queue, the Actions that were behind it stay
\* in front, in their order, of every follow-up the step enqueues; and an
\* event only ever appends behind what is already queued.
C1_FifoOrder ==
  [][/\ DrainStep =>
          /\ last_action' = Head(queue)
          /\ Len(queue') >= Len(queue) - 1
          /\ SubSeq(queue', 1, Len(queue) - 1) = Tail(queue)
     /\ pc = "wait" =>
          /\ Len(queue') >= Len(queue)
          /\ SubSeq(queue', 1, Len(queue)) = queue]_vars

\* C1 witness: A = RequestUpdateReader was processed while B = ActivateReader
\* was queued behind it, and its follow-up C = UpdateReader now stands behind B.
C1_Witness ==
  /\ last_action.type = "RequestUpdateReader"
  /\ Len(queue) = 2
  /\ queue[1].type = "ActivateReader"
  /\ queue[2].type = "UpdateReader"

\* C2: processing a tab-creating Action appends exactly one tab, selects it,
\* and the Request* Action sent for it carries tabs.len() - 1, the index the
\* new component was constructed with.
C2_NewTabReportsIndex ==
  [][(DrainStep /\ Head(queue).type \in NewTabTypes) =>
        /\ Len(tabs') = Len(tabs) + 1
        /\ selected_tab' = Len(tabs') - 1
        /\ Last(queue').type = RequestFor(Head(queue), 1).type
        /\ Last(queue').idx = Len(tabs') - 1
        /\ Last(tabs').idx = Len(tabs') - 1]_vars

\* C3: once the queue is drained, the component at position p of tabs (and
\* the reader of an ArticleView) holds self-index p.
C3_SelfIndexIsPosition ==
  (pc = "wait" /\ last_event = "") =>
     \A p \in DOMAIN tabs :
        /\ tabs[p].idx = p - 1
        /\ tabs[p].kind = "ArticleView" => tabs[p].reader_idx = p - 1

\* C4: the close-tab key with selected tab s > 0 removes the component at
\* position s and selects s - 1 in the viewer and in the tab strip, with
\* s = 0 it removes nothing; and every draw renders the component at the
\* selected position, never a removed one.
C4_CloseSelectsPreceding ==
  [][/\ (pc = "wait" /\ pc' = "drain" /\ last_event' = "x") =>
          IF selected_tab > 0
            THEN /\ tabs' = RemoveAt(tabs, selected_tab)
                 /\ selected_tab' = selected_tab - 1
                 /\ tab_bar'.selected_tab = selected_tab - 1
                 /\ closed' = closed \cup {tabs[selected_tab + 1].uid}
            ELSE tabs' = tabs /\ selected_tab' = 0 /\ closed' = closed
     /\ (DrainStep /\ Head(queue).type \in {"Render", "Resize"}) =>
          /\ selected_tab + 1 \in DOMAIN tabs
          /\ drawn' = tabs[selected_tab + 1].uid
          /\ drawn' \notin closed]_vars

\* C4 witness: a tab has been closed and the draw after it rendered the
\* component at the selected position.
C4_Witness ==
  /\ closed # {}
  /\ last_event = "Render"
  /\ drawn # -1
  /\ drawn = tabs[selected_tab + 1].uid

UpdateTypes == {"UpdateFeedView", "UpdateArticleView", "UpdateReader"}

\* C5: an index-addressed result Action changes the list of a FeedView or an
\* ArticleView, or the content of a reader, only where the stored self-index
\* equals the Action's index (and there it stores the Action's data); every
\* other component's data is unchanged.
C5_OnlyAddressedTabChanges ==
  [][(DrainStep /\ Head(queue).type \in UpdateTypes) =>
        LET a == Head(queue)
        IN  /\ Len(tabs') = Len(tabs)
            /\ \A p \in DOMAIN tabs :
                  LET c == tabs[p]
                      d == tabs'[p]
                      addressed ==
                        \/ a.type = "UpdateFeedView" /\ c.kind = "FeedView" /\ c.idx = a.idx
                        \/ a.type = "UpdateArticleView" /\ c.kind = "ArticleView"
                             /\ c.idx = a.idx
                  IN  /\ IF addressed THEN d.list = a.data /\ d.has_list
                         ELSE d.list = c.list /\ d.has_list = c.has_list
                      /\ IF a.type = "UpdateReader" /\ c.kind = "ArticleView"
                              /\ c.reader_idx = a.idx
                           THEN d.content = a.arg
                           ELSE d.content = c.content]_vars

\* C5 witness: an UpdateReader was processed with one reader holding its
\* index, which took the content, and another reader holding a different
\* index, whose content is another.
C5_Witness ==
  /\ last_action.type = "UpdateReader"
  /\ \E p, q \in DOMAIN tabs :
        /\ tabs[p].kind = "ArticleView" /\ tabs[p].reader_idx = last_action.idx
        /\ tabs[p].content = last_action.arg
        /\ tabs[q].kind = "ArticleView" /\ tabs[q].reader_idx # last_action.idx
        /\ tabs[q].content # last_action.arg

SyncReturned == sync_pc \in {"returned_ok", "returned_err"}

FeedStored(link) == \E i \in DOMAIN feeds : feeds[i].url = link

ItemStored(url) == \E i \in DOMAIN feed_items : feed_items[i].url = url

\* C6: when a synchronization has ended, every configured feed whose own
\* fetch did not fail is stored with all the entries of its document (no
\* storage failure having occurred).
C6_FetchFailureSkipsOnlyThatFeed ==
  (SyncReturned /\ now > 0 /\ ~sync_log.storage_failed) =>
     \A link \in ConfiguredLinks \ sync_log.fetch_failed :
        /\ FeedStored(link)
        /\ \A url \in Range(remote[link]) : ItemStored(url)

\* C7: refresh_feeds never returns Err.
C7_SyncNeverFails == sync_pc # "returned_err"

\* C8: an upsert called a second time with the fields of the call before it
\* leaves exactly one row under the unique key, with the id it had after the
\* first call.
C8_UpsertIdempotent ==
  (call.rep /\ call.ok) =>
     LET table == IF call.op = "upsert_group" THEN groups
                  ELSE IF call.op = "upsert_feed" THEN feeds ELSE feed_items
         rows == IF call.op = "upsert_group"
                   THEN {i \in DOMAIN table : table[i].name = call.arg.name}
                   ELSE {i \in DOMAIN table : table[i].url = call.arg.url}
     IN  /\ Cardinality(rows) = 1
         /\ call.row_before.id # 0
         /\ \A i \in rows : table[i].id = call.row_before.id
         /\ Len(table) = call.len_before

\* C8 witness: an item upsert was repeated with identical fields.
C8_Witness == call.op = "upsert_feed_item" /\ call.rep /\ call.ok

\* C9: upserting a Feed whose url exists under another name stores the new
\* name, description and updated_at in the existing row, adds no row and
\* keeps the row's id.
C9_FeedMergeOnConflict ==
  (/\ call.op = "upsert_feed" /\ call.ok
   /\ call.row_before.id # 0 /\ call.row_before.name # call.arg.name) =>
     LET rows == {i \in DOMAIN feeds : feeds[i].url = call.arg.url}
     IN  /\ Cardinality(rows) = 1
         /\ Len(feeds) = call.len_before
         /\ \A i \in rows :
               /\ feeds[i].id = call.row_before.id
               /\ feeds[i].name = call.arg.name
               /\ feeds[i].desc = call.arg.desc
               /\ feeds[i].updated_at = call.arg.updated_at

\* C9 witness: a feed was upserted under an existing url with another name,
\* another description and a later timestamp.
C9_Witness ==
  /\ call.op = "upsert_feed" /\ call.ok
  /\ call.row_before.id # 0
  /\ call.row_before.name # call.arg.name
  /\ call.row_before.desc # call.arg.desc
  /\ call.row_before.updated_at < call.arg.updated_at

\* C10: every stored Feed's group_id is the id of a stored Group and every
\* stored FeedItem's feed_id is the id of a stored Feed.
C10_ForeignKeysHold ==
  /\ \A i \in DOMAIN feeds : \E j \in DOMAIN groups : groups[j].id = feeds[i].group_id
  /\ \A i \in DOMAIN feed_items :
        \E j \in DOMAIN feeds : feeds[j].id = feed_items[i].feed_id

\* The group ids a caller can pass: the stored ones, the synthetic -1, and 0.
GroupIdsAsked == {groups[i].id : i \in DOMAIN groups} \cup {-1, 0}

\* C11: get_groups returns the synthetic group {id -1, name "All Feeds"}
\* followed by exactly the stored groups in insertion order (ascending id), and
\* get_feeds_from_group(g) returns an element with id -1 followed by exactly
\* the stored feeds whose group_id is g.
C11_ListingsLedBySynthetic ==
  LET gs == get_groups(Db)
  IN  /\ Head(gs).id = -1 /\ Head(gs).name = "All Feeds"
      /\ Len(gs) = Len(groups) + 1
      /\ Range(Tail(gs)) = Range(groups)
      /\ \A i, j \in 2..Len(gs) : i < j => gs[i].id < gs[j].id
      /\ \A g \in GroupIdsAsked :
            LET fs == get_feeds_from_group(Db, g)
            IN  /\ Head(fs).id = -1
                /\ Range(Tail(fs)) = {f \in Range(feeds) : f.group_id = g}
                /\ Len(fs) = 1 + Cardinality({f \in Range(feeds) : f.group_id = g})

\* C11 witness: two groups and two feeds are stored, and the listing of one
\* group holds one of the feeds only.
C11_Witness ==
  /\ Len(groups) = 2 /\ Len(feeds) = 2
  /\ \E g \in GroupIdsAsked : Len(get_feeds_from_group(Db, g)) = 2

\* The first synchronization, from empty storage, has returned Ok without a
\* failed fetch and without a failed storage call.
FirstSyncClean ==
  /\ sync_pc = "returned_ok" /\ now = 1
  /\ sync_log.fetch_failed = {} /\ ~sync_log.storage_failed

\* The listings after the synchronization show the configuration.
ListingsShowConfig ==
  LET gs == get_groups(Db)
  IN  /\ Len(gs) = Len(config) + 1
      /\ Head(gs).id = -1
      /\ \A g \in DOMAIN config :
            LET fs == get_feeds_from_group(Db, gs[g + 1].id)
            IN  /\ gs[g + 1].name = config[g].name
                /\ Len(fs) = Len(config[g].feeds) + 1
                /\ Head(fs).id = -1
                /\ \A j \in DOMAIN config[g].feeds : fs[j + 1].url = config[g].feeds[j].link

\* Every stored feed lists one item per entry of its document.
OneItemPerEntry ==
  \A i \in DOMAIN feeds :
     Len(get_feed_items_from_feed(Db, feeds[i].id)) = Len(remote[feeds[i].url])

\* No entry link occurs in the documents of two configured feeds.
EntriesDistinct ==
  \A l1, l2 \in ConfiguredLinks :
     l1 # l2 => Range(remote[l1]) \cap Range(remote[l2]) = {}

\* C12 as stated: after a synchronization from empty storage in which every
\* fetch succeeds, the listings show the configured groups and feeds and every
\* feed lists exactly one stored item per entry of its document.
C12_AsStated == FirstSyncClean => (ListingsShowConfig /\ OneItemPerEntry)

\* C12 amended: the same, for documents that share no entry link (an entry
\* that two documents carry is stored once, under the feed synchronized first).
C12_FirstSyncListings ==
  (FirstSyncClean /\ EntriesDistinct) => (ListingsShowConfig /\ OneItemPerEntry)

\* C12 witness: two groups with a feed each were synchronized, and each feed
\* lists the entry of its own document.
C12_Witness ==
  /\ FirstSyncClean /\ EntriesDistinct
  /\ Len(config) = 2 /\ Len(feeds) = 2 /\ Len(feed_items) = 2
  /\ \A i \in DOMAIN feeds : Len(get_feed_items_from_feed(Db, feeds[i].id)) = 1
  /\ \A g \in DOMAIN config : Len(config[g].feeds) = 1

\* The last call was an item upsert with the values refresh_feeds passes
\* (content "", read false) for a url that was stored already.
ResyncOfStoredItem ==
  /\ call.op = "upsert_feed_item" /\ call.ok
  /\ call.row_before.id # 0
  /\ call.arg.content = "" /\ call.arg.read = FALSE

\* C13: re-synchronizing an item that is stored already does not replace its
\* stored content or its read flag.
C13_ResyncKeepsContentAndRead ==
  ResyncOfStoredItem =>
     LET row == ByUrl(feed_items, call.arg.url, "upsert_feed_item")
     IN  row.content = call.row_before.content /\ row.read = call.row_before.read

\* The extraction awaited by the RequestUpdateReader arm hands back Err.
ExtractFails == pc = "extract" /\ extraction' = "err"

\* C14: when the extraction requested by RequestUpdateReader fails, nothing is
\* enqueued (no UpdateReader, no second request), the content of every reader
\* and the root's mode stay as they were, and the loop goes on draining.
C14_FailedExtractionChangesNothing ==
  [][ExtractFails =>
        /\ queue' = queue
        /\ Len(tabs') = Len(tabs)
        /\ \A p \in DOMAIN tabs : tabs'[p].content = tabs[p].content
        /\ mode' = mode
        /\ pc' = "drain" /\ should_quit' = should_quit]_vars

\* C14 witness: an extraction has failed for a tab whose reader shows the
\* content of an earlier, successful one.
C14_Witness ==
  /\ extraction = "err"
  /\ \E p \in DOMAIN tabs :
        /\ tabs[p].kind = "ArticleView" /\ tabs[p].reader_idx = last_action.idx
        /\ tabs[p].content # 0

\* C15: while an extraction is under way the loop is not stalled: it can take
\* the next queued Action, and it can read the next terminal event.
C15_ExtractionDoesNotStall ==
  extraction = "pending" =>
     /\ queue # <<>> => ENABLED Drain
     /\ ENABLED TermEvent("Tick")

\* A request for the tab index i, or the result of one, is queued behind the
\* head of q: it was issued later than the request the head answers.
LaterRequestIssued(q, i) ==
  \E k \in 2..Len(q) :
     q[k].type \in {"RequestUpdateReader", "UpdateReader"} /\ q[k].idx = i

\* C16: a result is matched to readers by tab index only: an UpdateReader is
\* applied to every reader holding its index also when a later request for
\* the same index has been issued already.
C16_SupersededResultIsApplied ==
  [][(DrainStep /\ Head(queue).type = "UpdateReader"
        /\ LaterRequestIssued(queue, Head(queue).idx)) =>
        \A p \in DOMAIN tabs :
           (tabs[p].kind = "ArticleView" /\ tabs[p].reader_idx = Head(queue).idx)
              => tabs'[p].content = Head(queue).arg]_vars

\* C16 witness: the result of an earlier request has been applied to a reader
\* while the result of a later request for the same index was still queued.
C16_Witness ==
  /\ last_action.type = "UpdateReader"
  /\ LaterRequestIssued(<<last_action>> \o queue, last_action.idx)
  /\ \E p \in DOMAIN tabs :
        /\ tabs[p].kind = "ArticleView" /\ tabs[p].reader_idx = last_action.idx
        /\ tabs[p].content = last_action.arg

\* C17: quitting is terminal: once a Quit has been dequeued the loop never
\* again waits for a terminal event, whatever else is processed in that pass.
C17_QuitIsTerminal == should_quit => pc # "wait"

\* The step that ends a drain pass: the queue is empty and the loop leaves the
\* drain loop.
PassEnds == pc = "drain" /\ queue = <<>> /\ pc' # "drain"

\* The drain step that takes a Suspend or a Resume off the queue (neither
\* makes the root or a component send anything, so the queue gets shorter).
Dequeued(type) ==
  DrainStep /\ Head(queue).type = type /\ Len(queue') < Len(queue)

\* The number of Resume Actions in the sequence q.
Resumes(q) == Cardinality({k \in DOMAIN q : q[k].type = "Resume"})

\* C18: a Suspend that is still in force at the end of its drain pass causes
\* exactly one suspension. The pass ends by enqueuing one Resume and waiting
\* again; the suspend flag is raised only by processing a Suspend; while the
\* loop waits with the flag raised that one Resume is first in the queue, so
\* it is processed before the next pass can end; and processing it clears
\* the flag.
C18_OneSuspensionPerSuspend ==
  [][/\ (PassEnds /\ should_suspend) =>
           (queue' = <<Act("Resume", 0, 0, <<>>)>> /\ pc' = "wait")
     /\ (~should_suspend /\ should_suspend') => Dequeued("Suspend")
     /\ (pc' = "wait" /\ should_suspend') =>
           (Resumes(queue') = 1 /\ Head(queue').type = "Resume")
     /\ (pc' = "wait" /\ ~should_suspend') => Resumes(queue') = 0
     /\ Dequeued("Resume") => ~should_suspend']_vars

\* C18 witness: a pass has ended in a suspension, and the next pass has
\* processed its Resume and is about to end with the flag clear.
C18_Witness ==
  /\ pc = "drain" /\ queue = <<>>
  /\ last_action.type = "Resume"
  /\ ~should_suspend

\* C19: the quit key is classified by the root whatever has the focus: the
\* iteration that reads the key 'q' appends Quit to the queue, directly behind
\* what was queued already and so ahead of anything the components send for
\* that event, for every selected tab, mode and active pane.
C19_QuitKeyIndependentOfFocus ==
  [][(pc = "wait" /\ last_event' = "q") =>
        /\ pc' = "drain"
        /\ Len(queue') > Len(queue)
        /\ SubSeq(queue', 1, Len(queue)) = queue
        /\ queue'[Len(queue) + 1].type = "Quit"]_vars

\* C19 witness: the quit key was read while an article tab was selected and
\* its reader pane was the active one, and Quit is queued.
C19_Witness ==
  /\ pc = "drain" /\ last_event = "q"
  /\ selected_tab > 0
  /\ tabs[selected_tab + 1].kind = "ArticleView"
  /\ tabs[selected_tab + 1].reader_active
  /\ queue # <<>> /\ queue[Len(queue)].type = "Quit"

\* C20: the quit popup honours the confirm-before-quit policy. With
\* confirm_quit set it sends Quit only for the key 'y' while it is shown, it
\* is shown only by ConfirmQuit, and 'n' hides it and sends nothing; with
\* confirm_quit clear it sends Quit only when handed ConfirmQuit.
C20_PopupHonoursPolicy ==
  [][/\ Len(queue') > Len(queue) =>
          IF confirm_quit THEN show /\ last_event' = "y"
                          ELSE last_action'.type = "ConfirmQuit"
     /\ (~show /\ show') => last_action'.type = "ConfirmQuit"
     /\ (show /\ last_event' = "n") => (~show' /\ queue' = queue)]_vars

\* C21: a draw failure does not abort the frame. After a Render or Resize has
\* been processed every component whose own draw does not fail has been
\* drawn, and each failing root component has been answered with an Error.
C21_DrawFailureKeepsFrame ==
  (pc = "drain" /\ last_action.type \in {"Render", "Resize"}) =>
     /\ DrawNames \ draw_err \subseteq frame
     /\ (draw_err # {}) => \E k \in DOMAIN queue : queue[k].type = "Error"

\* The positions of the Refresh Actions in the sequence q.
Refreshes(q) == {k \in DOMAIN q : q[k].type = "Refresh"}

\* C22: the loop starts with a one-time Refresh. At most one Refresh is ever
\* queued and nothing is queued ahead of it, and no terminal event is read
\* and handed to the components while that Refresh is still waiting to be
\* applied.
C22_RefreshBeforeFirstEvent ==
  [][/\ Cardinality(Refreshes(queue')) <= 1
     /\ Refreshes(queue') \subseteq {1}
     /\ (pc = "wait" /\ pc' # "wait") => Refreshes(queue) = {}]_vars

\* The tab component c has been given its listing by an Update* Action.
Populated(c) ==
  /\ c.kind = "FeedView" => c.list # <<>>
  /\ c.kind = "ArticleView" => c.has_list

\* C23: every tab is populated by the Request* / Update* exchange its creation
\* starts. Once the pass that created it is over, the queue drained and the
\* loop waiting again, every open tab has been given its listing.
C23_NewTabIsPopulated ==
  pc = "wait" => \A p \in DOMAIN tabs : Populated(tabs[p])

\* C24: the root's Mode is mirrored. Once the queue has been drained and the
\* loop waits again, the TabViewer and every tab component (GroupView,
\* FeedView, the ArticleList of an ArticleView) hold the root's current Mode.
C24_ModeIsMirrored ==
  (pc = "wait" /\ queue = <<>>) =>
     /\ tv_mode = mode
     /\ \A p \in DOMAIN tabs : tabs[p].mode = mode

\* C25: the selected tab is mirrored. The step that changes selected_tab puts
\* a ChangeTab carrying the new index on the queue, and once the queue has
\* been drained and the loop waits again every tab component's selected_idx
\* equals TabViewer.selected_tab.
C25_SelectedTabIsMirrored ==
  [][/\ selected_tab' # selected_tab =>
          \E k \in DOMAIN queue' :
             /\ k >= Len(queue)
             /\ queue'[k] = Act("ChangeTab", selected_tab', 0, <<>>)
     /\ (pc' = "wait" /\ queue' = <<>>) =>
          \A p \in DOMAIN tabs' : tabs'[p].selected_idx = selected_tab']_vars

\* C25 witness: tabs were opened, one was closed and another selected, the
\* queue is drained, and every component mirrors the selected index.
C25_Witness ==
  /\ pc = "wait" /\ queue = <<>>
  /\ Len(tabs) >= 3 /\ closed # {}
  /\ selected_tab = 1
  /\ \A p \in DOMAIN tabs : tabs[p].selected_idx = 1

\* The number of elements of the listing with the synthetic id -1.
Synthetics(listing) == Cardinality({k \in DOMAIN listing : listing[k].id = -1})

\* C26: the synthetic "All Feeds" entities do not collide with stored rows.
\* Every stored group, feed and item has an id of 1 or more, no stored feed
\* is filed under the synthetic group and no stored item under the synthetic
\* feed, and the group listing and every feed listing hold exactly one
\* element with id -1.
C26_SyntheticNeverStored ==
  /\ \A i \in DOMAIN groups : groups[i].id >= 1
  /\ \A i \in DOMAIN feeds : feeds[i].id >= 1 /\ feeds[i].group_id # -1
  /\ \A i \in DOMAIN feed_items : feed_items[i].id >= 1 /\ feed_items[i].feed_id # -1
  /\ Synthetics(get_groups(Db)) = 1
  /\ \A g \in GroupIdsAsked : Synthetics(get_feeds_from_group(Db, g)) = 1

\* C26 witness: a second synchronization has ended with two groups, two
\* feeds and items stored, so inserts and conflicting upserts have happened.
C26_Witness ==
  /\ SyncReturned /\ now = 2
  /\ Len(groups) = 2 /\ Len(feeds) = 2 /\ Len(feed_items) >= 2

\* C27: no update resubmits the Action it is handling. Whenever an Action has
\* been handed to update, none of the Actions enqueued by that step is of the
\* same kind, so that no chain of Actions keeps the queue from draining.
C27_NoSelfResubmission ==
  [][(last_action'.type # "None" /\ Len(queue') > Len(queue)) =>
        \A k \in (Len(queue) + 1)..Len(queue') :
           queue'[k].type # last_action'.type]_vars

\* The step in which the upsert of a configured group fails.
GroupUpsertFails == sync_log'.group_failed \ sync_log.group_failed # {}

\* The configured groups whose feeds the synchronizer is working on.
GroupInHand(pcv, g) == IF pcv \in {"feed", "item"} THEN {config[g].name} ELSE {}

\* C28: a configured group whose upsert fails is skipped as a whole and the
\* loop goes on with the next group. The failing step stores nothing and moves
\* to the next configured group; the synchronizer never works on the feeds of a
\* group whose upsert failed; no feed or entry is written while such a group is
\* in hand; and when the synchronization returns Ok every configured group has
\* been visited, each one either logged as failed or stored.
C28_FailedGroupIsSkipped ==
  [][/\ GroupUpsertFails =>
          /\ feeds' = feeds /\ feed_items' = feed_items /\ groups' = groups
          /\ sync_pc' = "group" /\ gi' = gi + 1
     /\ GroupInHand(sync_pc', gi') \cap sync_log'.group_failed = {}
     /\ (feeds' # feeds \/ feed_items' # feed_items) =>
          /\ GroupInHand(sync_pc, gi) # {}
          /\ GroupInHand(sync_pc, gi) \cap sync_log.group_failed = {}
     /\ (sync_pc # "returned_ok" /\ sync_pc' = "returned_ok") =>
          /\ gi' > Len(config)
          /\ \A k \in DOMAIN config :
                \/ config[k].name \in sync_log'.group_failed
                \/ \E i \in DOMAIN groups' : groups'[i].name = config[k].name]_vars

\* The first group's upsert failed in the first synchronization, none of its
\* feeds is stored, and the second group was stored with its feed and entries.
C28_Witness ==
  /\ sync_pc = "returned_ok" /\ now = 1
  /\ Len(config) = 2 /\ config[1].feeds # <<>> /\ config[2].feeds # <<>>
  /\ sync_log.group_failed = {config[1].name}
  /\ {groups[i].name : i \in DOMAIN groups} = {config[2].name}
  /\ {feeds[i].url : i \in DOMAIN feeds} = {config[2].feeds[1].link}
  /\ feed_items # <<>>

\* The step in which the Action in hand is handed to the components' update:
\* at once for most Actions, after the extraction for RequestUpdateReader.
FanOut == (pc = "drain" /\ queue # <<>> /\ pc' = "drain") \/ pc = "extract"

\* C29: every Action taken off the queue is handed exactly once to the update
\* of every tab content component open at that moment, through the root's
\* fan-out and TabViewer::update, and the follow-up the TabViewer returns is
\* enqueued. A tab opened by the Action itself has not received it.
C29_EveryActionIsDelivered ==
  [][FanOut =>
       LET a == IF pc = "extract" THEN last_action ELSE Head(queue)
       IN  /\ last_action' = a
           /\ Len(tabs') >= Len(tabs)
           /\ \A p \in DOMAIN tabs :
                 tabs'[p].uid = tabs[p].uid /\ tabs'[p].calls = 1
           /\ \A p \in DOMAIN tabs' \ DOMAIN tabs : tabs'[p].calls = 0
           /\ a.type \in NewTabTypes =>
                 /\ queue' # <<>>
                 /\ queue'[Len(queue')] = RequestFor(a, Len(tabs'))]_vars

\* Quit has been handed to three open tabs, none of them skipped.
C29_Witness ==
  /\ pc = "drain" /\ last_action.type = "Quit" /\ should_quit
  /\ Len(tabs) >= 3 /\ selected_tab = 1
  /\ \A p \in DOMAIN tabs : tabs[p].calls = 1

\* The step in which a key other than the closing key is handed to the
\* components: the tabs keep their positions in it.
KeyHandled == pc = "wait" /\ pc' = "drain" /\ last_event' \in Keys \ {"x"}

\* The Actions the step has put on the queue.
NewlySent == {k \in DOMAIN queue' : k > Len(queue)}

\* C30: focused input reaches only the active tab. When a key is handled, the
\* component of every tab other than the selected one is left as it was, and
\* the tabs together send at most one request for the reader.
C30_OnlyActiveTabReacts ==
  [][KeyHandled =>
       /\ \A p \in DOMAIN tabs : p # selected_tab + 1 => tabs'[p] = tabs[p]
       /\ Cardinality({k \in NewlySent : queue'[k].type = "RequestUpdateReader"}) <= 1]_vars

\* C31: the id an upsert hands back is the id of the stored row that carries
\* the argument's unique key (name for groups, url for feeds and entries),
\* on the insert path and on the conflict path alike.
C31_ReturnedIdIsRowId ==
  call.ok =>
    call.id = IF call.op = "upsert_group" THEN GroupByName(groups, call.arg.name).id
              ELSE IF call.op = "upsert_feed" THEN ByUrl(feeds, call.arg.url, call.op).id
              ELSE ByUrl(feed_items, call.arg.url, call.op).id

\* The application started on a storage other than that of Started.
StartedOn(gs, fs, its, rowid, cfg, rem) ==
  /\ groups = gs /\ feeds = fs /\ feed_items = its
  /\ last_insert_rowid = rowid
  /\ foreign_keys = TRUE
  /\ config = cfg /\ remote = rem /\ now = 1
  /\ SyncOff
  /\ call = NoCall("upsert_group")
  /\ pc = "wait"
  /\ queue = <<Act("Refresh", 0, 0, Ids(get_groups(Db)))>>
  /\ should_quit = FALSE /\ should_suspend = FALSE
  /\ mode = "GroupView" /\ tv_mode = "Main" /\ extraction = "none"
  /\ tabs = TabViewer_new.tabs
  /\ selected_tab = TabViewer_new.selected_tab
  /\ tab_bar = TabViewer_new.tab_bar
  /\ next_uid = 1 /\ closed = {} /\ drawn = -1 /\ frame = {} /\ last_event = "" /\ last_action = NoAct
  /\ PopupOff

\* The one feed has no entry yet: the document behind "u1" was empty when the
\* synchronization ran.
StartedNoEntries ==
  StartedOn(SyncedGroups, SyncedFeeds, <<>>, 1, SyncedConfig, [l \in Links |-> <<>>])

\* The group has two feeds with one entry each.
StartedTwoFeeds ==
  StartedOn(SyncedGroups,
            <<FeedRow(1, 1, "t1", "t2", "u1", 1), FeedRow(2, 1, "t1", "t2", "u2", 1)>>,
            <<ItemRow(1, 1, "t1", "a", "t2", "", FALSE, 1),
              ItemRow(2, 2, "t1", "b", "t2", "", FALSE, 1)>>,
            2,
            <<GroupConfig("g1", "t1", <<FeedConfig(None, None, "u1"),
                                        FeedConfig(None, None, "u2")>>)>>,
            [l \in Links |-> <<EntryUrl(l, 1)>>])

\* The interface on these storages, in a build with or without overflow checks.
InitNav ==
  /\ StartedNoEntries \/ StartedTwoFeeds
  /\ draw_err = {}
  /\ overflow_checks \in BOOLEAN

NavKeys == {"j", "k", "l", "x", "H", "L"}

NextNav ==
  \/ \E key \in NavKeys : KeyEvent(key)
  \/ Drain
  \/ \E extract_ok \in BOOLEAN : ExtractDone(extract_ok)
  \/ EndPass

SpecNav == InitNav /\ [][NextNav]_vars

\* C32: list navigation never fails on an empty list. Once the group list has
\* been filled by the initial Refresh, no next, previous or open key handled by
\* a GroupView, FeedView or ArticleList ends the program with a panic
\* (remainder by zero, length minus one below zero, or an element access
\* outside the list), whatever lists the tabs hold. Stated for the build with
\* overflow checks, where no selection has wrapped before.
C32_NavigationNeverPanics == (tabs[1].list # <<>> /\ overflow_checks) => pc # "panic"

\* C33: in every list component whose list is non-empty and that has a
\* selection, the selected index is below the length of the list, so opening
\* the selected item finds an element, in every build.
C33_SelectionInRange ==
  \A p \in DOMAIN tabs :
     (tabs[p].list # <<>> /\ tabs[p].state # -1) =>
        /\ tabs[p].state >= 0
        /\ tabs[p].state < Len(tabs[p].list)

\* The Groups tab of TabViewer::new is first, and the selection points at a tab.
GroupsFirst(ts, sel, gone) ==
  /\ ts # <<>>
  /\ ts[1].kind = "GroupView" /\ ts[1].uid = 0 /\ 0 \notin gone
  /\ sel >= 0 /\ sel < Len(ts)

\* C34: the tabs are never empty, the Groups tab made at construction stays at
\* position 0 and is never removed, and the selected position is that of a tab
\* after every step; the previous-tab key wraps from 0 to the last tab and the
\* next-tab key from the last tab to 0.
C34_SelectionPointsAtATab ==
  [][/\ GroupsFirst(tabs, selected_tab, closed)
     /\ GroupsFirst(tabs', selected_tab', closed')
     /\ (pc = "wait" /\ pc' = "drain" /\ last_event' = "H") =>
          selected_tab' = IF selected_tab = 0 THEN Len(tabs) - 1 ELSE selected_tab - 1
     /\ (pc = "wait" /\ pc' = "drain" /\ last_event' = "L") =>
          selected_tab' = IF selected_tab = Len(tabs) - 1 THEN 0 ELSE selected_tab + 1]_vars

\* The previous-tab key has wrapped from the Groups tab to the last of three
\* tabs, after a tab was closed.
C34_Witness ==
  /\ pc = "drain" /\ last_event = "H" /\ closed # {}
  /\ Len(tabs) = 3 /\ selected_tab = 2

\* C35: the tab strip stays parallel to the tabs: it holds as many labels as
\* there are tab components, the label at each position is the one given
\* with the component at that position, and the strip's selected index is
\* the viewer's selected_tab.
C35_StripParallelToTabs ==
  /\ Len(tab_bar.tabs) = Len(tabs)
  /\ \A k \in DOMAIN tabs : tab_bar.tabs[k] = tabs[k].uid
  /\ tab_bar.selected_tab = selected_tab

\* The close key has just removed a tab that had another one after it.
C35_Witness ==
  /\ pc = "drain" /\ last_event = "x"
  /\ \E i \in DOMAIN queue : queue[i].type = "RemoveTab" /\ queue[i].idx = selected_tab + 1
  /\ Len(tabs) > selected_tab + 1
  /\ tab_bar.tabs[selected_tab + 2] = tabs[selected_tab + 2].uid

\* C36: the self-indices stored by the open tab components are pairwise
\* distinct.
C36_SelfIndicesDistinct ==
  \A p, q \in DOMAIN tabs : p # q => tabs[p].idx # tabs[q].idx

\* In every ArticleView among ts the list and the reader are not both
\* active, and when drained is TRUE exactly one of them is.
OneSideActive(ts, drained) ==
  \A p \in DOMAIN ts :
     ts[p].kind = "ArticleView" =>
        /\ ~(ts[p].list_active /\ ts[p].reader_active)
        /\ drained => (ts[p].list_active \/ ts[p].reader_active)

\* C37: within one ArticleView the list and the reader are never both
\* active, and with the queue drained exactly one of them is; applying
\* ActivateReader leaves the reader active and the list inactive, applying
\* ActivateFeedList the list active and the reader inactive, and the back key
\* in an active reader deactivates it and sends ActivateFeedList.
C37_ListXorReader ==
  [][/\ OneSideActive(tabs, pc = "wait" /\ queue = <<>>)
     /\ OneSideActive(tabs', pc' = "wait" /\ queue' = <<>>)
     /\ (DrainStep /\ Head(queue).type = "ActivateReader") =>
          \A p \in DOMAIN tabs' :
             tabs'[p].kind = "ArticleView" =>
                tabs'[p].reader_active /\ ~tabs'[p].list_active
     /\ (DrainStep /\ Head(queue).type = "ActivateFeedList") =>
          \A p \in DOMAIN tabs' :
             tabs'[p].kind = "ArticleView" =>
                tabs'[p].list_active /\ ~tabs'[p].reader_active
     /\ (pc = "wait" /\ pc' = "drain" /\ last_event' = "h") =>
          \A p \in DOMAIN tabs :
             (tabs[p].kind = "ArticleView" /\ tabs[p].reader_active) =>
                /\ ~tabs'[p].reader_active /\ ~tabs'[p].list_active
                /\ \E i \in DOMAIN queue' : queue'[i].type = "ActivateFeedList"]_vars

\* The back key was pressed in an active reader and its ActivateFeedList has
\* been applied: the list is active again and the reader is not.
C37_Witness ==
  /\ last_event = "h" /\ last_action.type = "ActivateFeedList"
  /\ \E p \in DOMAIN tabs :
        /\ tabs[p].kind = "ArticleView"
        /\ tabs[p].list_active /\ ~tabs[p].reader_active
====
